---- MODULE Spec2Model ----
(***************************************************************************)
(* A model of pymob's simulation core: the parameter flattener, the seed   *)
(* pool, evaluator dispatch, the observation / coordinate model and the    *)
(* batched ODE solver (src/pymob/simulation.py, src/pymob/solvers/         *)
(* diffrax.py).  Each subsystem has its own group of variables and its own *)
(* specification; the groups a specification does not use stay at their    *)
(* idle values.                                                            *)
(***************************************************************************)
EXTENDS Integers, Sequences, FiniteSets, TLC

VARIABLES
    \* ---- parameter flattener (flatten_parameter_dict) ----
    fl_pc,          \* "start", "flattened" or "reversed"
    fl_input,       \* model_parameter_dict, in the order of its items()
    fl_exclude,     \* exclude_params
    fl_flat,        \* flat_params, the returned flat mapping
    fl_empty,       \* empty_map, the template the closure reverse_mapper keeps
    fl_arrays,      \* the arrays np.full_like created, one per vector, by name
    fl_arg,         \* the argument of the latest reverse_mapper call
    fl_status,      \* "ok" or the exception the latest call raised
    fl_result,      \* what the latest call returned, arrays written out
    \* ---- observations and what is derived from them ----
    ob_dims,        \* config.simulation.dimensions
    ob_datavars,    \* config.simulation.data_variables
    ob_obs,         \* self._observations
    ob_coords,      \* self._coordinates
    ob_scaler,      \* self.scaler: per data variable the fitted minimum and maximum
    ob_scaled,      \* self.observations_scaled
    ob_mapper,      \* self.var_dim_mapper
    ob_indices,     \* self.indices
    ob_call,        \* the latest assignment: what it was and how it ended
    \* ---- evaluator dispatch (setup, dispatch, parameterize) ----
    dp_heap,        \* the dict objects self.model_parameters refers to, by identity
    dp_fixed,       \* the parameters as they were set at initialisation
    dp_setup,       \* setup() has bound model_parameters to parameterize
    dp_n_ode_states,\* config.simulation.n_ode_states
    dp_model,       \* the source of self.model
    dp_evals,       \* the evaluators dispatched so far, in order
    dp_call,        \* the latest call: operation, arguments, outcome
    \* ---- JaxSolver.solve over a batch ----
    sv_throw,       \* JaxSolver.throw_exception
    sv_max_steps,   \* JaxSolver.max_steps
    sv_pc,          \* "idle", "integrating", "returned" or "raised"
    sv_t,           \* per batch element the time its integration has reached
    sv_steps,       \* per batch element the steps its integration has taken
    sv_result,      \* per batch element and ODE state the values at the saved times
    sv_xin,         \* the forcing x_in handed to solve
    sv_jumps,       \* jump_ts handed to the step size controller
    sv_batch,       \* the length of the batch axis of y0
    sv_pp,          \* JaxSolver.post_processing
    sv_ds,          \* JaxSolver.data_structure_and_dimensionality
    sv_ppcall,      \* the arguments post_processing was called with
    sv_out,         \* the mapping solve returned
    \* ---- result assembler (SimulationBase.create_dataset_from_numpy) ----
    ra_Y,           \* the array handed to create_dataset_from_numpy
    ra_names,       \* Y_names
    ra_coords,      \* coordinates
    ra_out,         \* what the call gave: its status and the dataset
    \* ---- seed pool (SimulationBase.__init__, draw_seed) ----
    sd_ncores,      \* config.multiprocessing.n_cores
    sd_pool,        \* self._random_integers
    sd_rng,         \* how many integers self.RNG has produced so far
    sd_pc,          \* per worker: position inside draw_seed
    sd_left,        \* per worker: the local n_seeds_left of refill_consumed_seeds
    sd_drawn,       \* every seed returned by a draw_seed call, in order of return
    \* ---- the arguments of the vectorized map (JaxSolver.solve) ----
    sa_n_ode_states,\* self.n_ode_states of the solver
    sa_y0,          \* tuple(y0.keys())
    sa_n_odeargs,   \* len(ode_args)
    sa_n_ppargs,    \* len(pp_args)
    sa_n_xin,       \* len(x_in_flat)
    sa_call         \* the call of loop_eval: its in_axes, its arguments, the split

seedVars == <<sd_ncores, sd_pool, sd_rng, sd_pc, sd_left, sd_drawn>>

flVars == <<fl_pc, fl_input, fl_exclude, fl_flat, fl_empty, fl_arrays, fl_arg,
           fl_status, fl_result>>

dpVars == <<dp_heap, dp_fixed, dp_setup, dp_evals, dp_call, dp_n_ode_states, dp_model>>

obVars == <<ob_dims, ob_datavars, ob_obs, ob_coords, ob_scaler, ob_scaled, ob_mapper,
            ob_indices, ob_call>>

svVars ==
    <<sv_throw, sv_max_steps, sv_pc, sv_t, sv_steps, sv_result, sv_xin, sv_jumps,
      sv_batch, sv_pp, sv_ds, sv_ppcall, sv_out>>

raVars == <<ra_Y, ra_names, ra_coords, ra_out>>

saVars == <<sa_n_ode_states, sa_y0, sa_n_odeargs, sa_n_ppargs, sa_n_xin, sa_call>>

vars == <<flVars, obVars, dpVars, svVars, seedVars, raVars, saVars>>

(***************************************************************************)
(* Generic helpers                                                         *)
(***************************************************************************)
Range(s) == {s[i] : i \in DOMAIN s}

(***************************************************************************)
(* Parameter flattener: flatten_parameter_dict and its closure             *)
(* reverse_mapper.  A name is the sequence of its characters, a dict is    *)
(* the sequence of its items in insertion order.                           *)
(***************************************************************************)
MaxVecLen == 2

\* the separator of f"{par}___{i}" and of subpar.split("___")
Sep == <<"_", "_", "_">>

Digits == <<"0", "1", "2", "3", "4", "5", "6", "7", "8", "9">>

\* the parameter names the inputs are drawn from: plain names, a name that ends
\* in an underscore and a name that holds the separator
Na == <<"a">>

Nb == <<"b">>

Na_ == <<"a", "_">>

Na___0 == <<"a", "_", "_", "_", "0">>

\* the keys of the input mappings, in the order of items()
FlNameLists ==
    { <<>>, <<Na>>, <<Nb>>, <<Na_>>, <<Na___0>>,
      <<Na, Nb>>, <<Nb, Na>>, <<Na, Na_>>, <<Na_, Nb>>,
      <<Na, Na___0>>, <<Na___0, Na>>, <<Nb, Na___0>> }

\* np.nan
NaN == [p |-> <<>>, i |-> -1]

\* the number stored for a scalar (i = 0) or at index i of a vector: the numbers
\* of an input are pairwise different, so a misplaced one shows
Val(name, i) == [p |-> name, i |-> i]

\* dict operations on a sequence of items [k, v]
DictHas(d, key) == \E n \in DOMAIN d : d[n].k = key

DictGet(d, key) == d[CHOOSE n \in DOMAIN d : d[n].k = key].v

DictSet(d, key, value) ==
    IF DictHas(d, key)
    THEN [n \in DOMAIN d |-> IF d[n].k = key THEN [k |-> key, v |-> value] ELSE d[n]]
    ELSE Append(d, [k |-> key, v |-> value])

DictKeys(d) == {d[n].k : n \in DOMAIN d}

\* dict.update(other): every item of other is set, in order
RECURSIVE DictUpdate(_, _)
DictUpdate(d, items) ==
    IF items = <<>> THEN d
    ELSE DictUpdate(DictSet(d, Head(items).k, Head(items).v), Tail(items))

\* zip(names, values)
Zip(names, values) ==
    [n \in 1..(IF Len(names) <= Len(values) THEN Len(names) ELSE Len(values)) |->
        [k |-> names[n], v |-> values[n]]]

\* str(i) of the f-string
RECURSIVE IntToStr(_)
IntToStr(i) ==
    IF i < 10 THEN <<Digits[i + 1]>>
    ELSE IntToStr(i \div 10) \o <<Digits[(i % 10) + 1]>>

\* an enumerate that counts from one
FlatKeyOneBased(par, i) == par \o Sep \o IntToStr(i + 1)

\* subpar = f"{par}___{i}"
FlatKey(par, i) == par \o Sep \o IntToStr(i)

\* str.split("___"): the pieces between the occurrences of the separator, found
\* from the left and not overlapping
FirstSep(s) ==
    LET at == {n \in 1..(Len(s) - 2) : SubSeq(s, n, n + 2) = Sep}
    IN  IF at = {} THEN 0 ELSE CHOOSE n \in at : \A m \in at : n <= m

RECURSIVE Split(_)
Split(s) ==
    LET n == FirstSep(s)
    IN  IF n = 0 THEN <<s>>
        ELSE <<SubSeq(s, 1, n - 1)>> \o Split(SubSeq(s, n + 3, Len(s)))

\* int(par_index) accepts digits, with single underscores between digits
IsIntLiteral(s) ==
    /\ s # <<>>
    /\ \A n \in DOMAIN s : s[n] \in Range(Digits) \/ s[n] = "_"
    /\ s[1] # "_" /\ s[Len(s)] # "_"
    /\ \A n \in 1..(Len(s) - 1) : ~(s[n] = "_" /\ s[n + 1] = "_")

DigitVal(c) == CHOOSE d \in 0..9 : Digits[d + 1] = c

RECURSIVE ParseInt(_)
ParseInt(s) ==
    IF s = <<>> THEN 0
    ELSE LET init == SubSeq(s, 1, Len(s) - 1)
             last == s[Len(s)]
         IN  IF last = "_" THEN ParseInt(init)
             ELSE 10 * ParseInt(init) + DigitVal(last)

\* the loop over enumerate(value): one flat entry per element
RECURSIVE ExpandVector(_, _, _, _)
ExpandVector(par, value, i, flat) ==
    IF i >= Len(value) THEN flat
    ELSE ExpandVector(par, value, i + 1, DictSet(flat, FlatKey(par, i), value[i + 1]))

\* the loop over parameters.items(): flat_params and empty_map.  A value is
\* [it |-> TRUE, v |-> <<elements>>] when is_iterable(value) and
\* [it |-> FALSE, v |-> <<number>>] otherwise; empty_map records for a vector
\* that it holds an array (kept in arrays) and for a scalar the number nan.
RECURSIVE FlattenLoop(_, _, _, _, _)
FlattenLoop(items, exclude, flat, empty, arrays) ==
    IF items = <<>> THEN [flat |-> flat, empty |-> empty, arrays |-> arrays]
    ELSE LET par == Head(items).k
             value == Head(items).v
         IN  IF par \in exclude
             THEN FlattenLoop(Tail(items), exclude, flat, empty, arrays)
             ELSE IF value.it
             THEN FlattenLoop(Tail(items), exclude,
                              ExpandVector(par, value.v, 0, flat),
                              DictSet(empty, par, [it |-> TRUE, v |-> <<>>]),
                              DictSet(arrays, par, [n \in DOMAIN value.v |-> NaN]))
             ELSE FlattenLoop(Tail(items), exclude,
                              DictSet(flat, par, value.v[1]),
                              DictSet(empty, par, [it |-> FALSE, v |-> <<NaN>>]),
                              arrays)

flatten_parameter_dict(model_parameter_dict, exclude_params) ==
    FlattenLoop(model_parameter_dict, exclude_params, <<>>, <<>>, <<>>)

Raised(error, arrays) == [status |-> error, param_dict |-> <<>>, arrays |-> arrays]

\* reverse_mapper: param_dict = empty_map.copy() copies the dict and not the
\* arrays in it, so an element assignment writes the array empty_map holds
RECURSIVE ReverseLoop(_, _, _)
ReverseLoop(items, param_dict, arrays) ==
    IF items = <<>>
    THEN [status |-> "ok", param_dict |-> param_dict, arrays |-> arrays]
    ELSE LET subpar == Head(items).k
             value == Head(items).v
             subpar_list == Split(subpar)
         IN  IF Len(subpar_list) > 1
             THEN IF Len(subpar_list) # 2 THEN Raised("ValueError", arrays)
                  ELSE LET par == subpar_list[1]
                           par_index == subpar_list[2]
                       IN  IF ~DictHas(param_dict, par) THEN Raised("KeyError", arrays)
                           ELSE IF ~IsIntLiteral(par_index)
                           THEN Raised("ValueError", arrays)
                           ELSE IF ~DictGet(param_dict, par).it
                           THEN Raised("TypeError", arrays)
                           ELSE IF ParseInt(par_index) >= Len(DictGet(arrays, par))
                           THEN Raised("IndexError", arrays)
                           ELSE ReverseLoop(Tail(items), param_dict,
                                    DictSet(arrays, par,
                                        [DictGet(arrays, par) EXCEPT
                                            ![ParseInt(par_index) + 1] = value]))
             ELSE ReverseLoop(Tail(items),
                              DictSet(param_dict, subpar_list[1],
                                      [it |-> FALSE, v |-> <<value>>]),
                              arrays)

reverse_mapper(parameters, empty_map, arrays) ==
    ReverseLoop(parameters, empty_map, arrays)

\* a returned param_dict with the arrays it refers to written out
Resolve(param_dict, arrays) ==
    [n \in DOMAIN param_dict |->
        IF param_dict[n].v.it
        THEN [k |-> param_dict[n].k,
              v |-> [it |-> TRUE, v |-> DictGet(arrays, param_dict[n].k)]]
        ELSE param_dict[n]]

\* the inputs: for each list of names, each name with a scalar or with a vector
\* of up to MaxVecLen elements
Shapes == {[it |-> FALSE, n |-> 0]} \cup {[it |-> TRUE, n |-> k] : k \in 0..MaxVecLen}

ValueOf(name, shape) ==
    IF shape.it THEN [it |-> TRUE, v |-> [i \in 1..shape.n |-> Val(name, i - 1)]]
    ELSE [it |-> FALSE, v |-> <<Val(name, 0)>>]

FlInputs ==
    UNION { { [i \in DOMAIN names |->
                  [k |-> names[i], v |-> ValueOf(names[i], shapes[i])]] :
                shapes \in [DOMAIN names -> Shapes] } : names \in FlNameLists }

\* the sub-sequence of d at the positions in S
RECURSIVE Pick(_, _)
Pick(d, S) ==
    IF d = <<>> THEN <<>>
    ELSE LET init == Pick(SubSeq(d, 1, Len(d) - 1), S)
         IN  IF Len(d) \in S THEN Append(init, d[Len(d)]) ELSE init

\* the flattener touches nothing of the other subsystems
FlFrame == UNCHANGED <<obVars, dpVars, svVars, seedVars, raVars, saVars>>

FlIdle ==
    /\ fl_pc = "off"
    /\ fl_input = <<>>
    /\ fl_exclude = {}
    /\ fl_flat = <<>>
    /\ fl_empty = <<>>
    /\ fl_arrays = <<>>
    /\ fl_arg = <<>>
    /\ fl_status = "none"
    /\ fl_result = <<>>

FlInit ==
    /\ fl_pc = "start"
    /\ fl_input = <<>>
    /\ fl_exclude = {}
    /\ fl_flat = <<>>
    /\ fl_empty = <<>>
    /\ fl_arrays = <<>>
    /\ fl_arg = <<>>
    /\ fl_status = "none"
    /\ fl_result = <<>>

\* flat_params, reverse_mapper = flatten_parameter_dict(input, exclude)
FlFlatten ==
    /\ fl_pc = "start"
    /\ \E input \in FlInputs : \E exclude \in SUBSET DictKeys(input) :
        LET r == flatten_parameter_dict(input, exclude)
        IN  /\ fl_input' = input
            /\ fl_exclude' = exclude
            /\ fl_flat' = r.flat
            /\ fl_empty' = r.empty
            /\ fl_arrays' = r.arrays
    /\ fl_pc' = "flattened"
    /\ UNCHANGED <<fl_arg, fl_status, fl_result>>
    /\ FlFrame

\* reverse_mapper(parameters), where parameters holds some of the flat entries
FlReverse ==
    /\ fl_pc \in {"flattened", "reversed"}
    /\ \E S \in SUBSET DOMAIN fl_flat :
        LET parameters == Pick(fl_flat, S)
            r == reverse_mapper(parameters, fl_empty, fl_arrays)
        IN  /\ fl_arg' = parameters
            /\ fl_status' = r.status
            /\ fl_arrays' = r.arrays
            /\ fl_result' = Resolve(r.param_dict, r.arrays)
    /\ fl_pc' = "reversed"
    /\ UNCHANGED <<fl_input, fl_exclude, fl_flat, fl_empty>>
    /\ FlFrame

\* the result has the keys of the input and, under each key, the same scalar or
\* a vector with the same element at every index
SameMapping(result, input) ==
    /\ DictKeys(result) = DictKeys(input)
    /\ \A n \in DOMAIN input :
        LET r == DictGet(result, input[n].k)
        IN  r.it = input[n].v.it /\ r.v = input[n].v.v

\* the latest reverse_mapper call was given the whole flat mapping of an input
\* flattened with no name excluded
FullRoundTrip == fl_pc = "reversed" /\ fl_exclude = {} /\ fl_arg = fl_flat

\* no name holds the separator, and no name of a vector ends in an underscore
WellFormedNames(input) ==
    \A n \in DOMAIN input :
        /\ FirstSep(input[n].k) = 0
        /\ input[n].v.it => (input[n].k = <<>> \/ input[n].k[Len(input[n].k)] # "_")

\* the entries C11 lists: per non-excluded vector one entry name___i for each
\* index i, per non-excluded scalar one entry under its name
ListedEntries(input, exclude) ==
    UNION { IF input[n].k \in exclude THEN {}
            ELSE IF input[n].v.it
            THEN { [k |-> input[n].k \o <<"_", "_", "_">> \o IntToStr(i - 1),
                    v |-> input[n].v.v[i]] : i \in DOMAIN input[n].v.v }
            ELSE { [k |-> input[n].k, v |-> input[n].v.v[1]] } : n \in DOMAIN input }

\* the flat names name___i listed for the vectors
VectorFlatNames(input, exclude) ==
    UNION { IF input[n].k \notin exclude /\ input[n].v.it
            THEN { input[n].k \o <<"_", "_", "_">> \o IntToStr(i - 1) :
                        i \in DOMAIN input[n].v.v }
            ELSE {} : n \in DOMAIN input }

\* no name of the mapping is the flat name of a vector entry of the mapping
NoNameCollides(input, exclude) ==
    \A n \in DOMAIN input : input[n].k \notin VectorFlatNames(input, exclude)

ExpectedPartial(item, arg) ==
    IF item.v.it
    THEN [it |-> TRUE,
          v |-> [i \in DOMAIN item.v.v |->
                    LET key == item.k \o <<"_", "_", "_">> \o IntToStr(i - 1)
                    IN  IF DictHas(arg, key) THEN DictGet(arg, key) ELSE NaN]]
    ELSE [it |-> FALSE,
          v |-> <<IF DictHas(arg, item.k) THEN DictGet(arg, item.k) ELSE NaN>>]

\* C12: the inverse function, given some of the flat entries, returns a
\* mapping with the non-excluded names of the input in which every supplied
\* entry has its supplied value and every omitted vector index and omitted
\* scalar is NaN.
C12_OmittedEntriesAreNaN ==
    (fl_pc = "reversed" /\ WellFormedNames(fl_input))
        => /\ fl_status = "ok"
           /\ DictKeys(fl_result) = DictKeys(fl_input) \ fl_exclude
           /\ \A n \in DOMAIN fl_input :
                fl_input[n].k \notin fl_exclude
                    => DictGet(fl_result, fl_input[n].k)
                         = ExpectedPartial(fl_input[n], fl_arg)

\* what reverse_mapper returns for arg when no call was made before it: the
\* arrays are those flatten_parameter_dict filled with NaN
FirstCall(arg) ==
    LET r == reverse_mapper(arg, fl_empty,
                            flatten_parameter_dict(fl_input, fl_exclude).arrays)
    IN  [status |-> r.status, result |-> Resolve(r.param_dict, r.arrays)]

\* C26: the inverse function keeps no state between calls: whatever calls
\* were made before, a call returns what the first call after flattening
\* returns for the same flat mapping, so nothing an earlier call wrote shows
\* in the result of a later one.
C26_ReverseMapperKeepsNoState ==
    fl_pc = "reversed"
        => /\ fl_status = FirstCall(fl_arg).status
           /\ fl_result = FirstCall(fl_arg).result

\* C1 as stated: for every mapping of names to scalars or vectors, flattened with
\* no excluded names, the inverse function applied to the flat mapping returns
\* the input.
C1_RoundTripAnyNames ==
    FullRoundTrip => (fl_status = "ok" /\ SameMapping(fl_result, fl_input))

\* C1 amended: the round trip holds for the mappings in which no name holds the
\* separator "___" and no name of a vector ends in "_".
C1_RoundTrip ==
    (FullRoundTrip /\ WellFormedNames(fl_input))
        => (fl_status = "ok" /\ SameMapping(fl_result, fl_input))

\* a round trip of a scalar together with a vector of two elements
C1_Witness ==
    /\ FullRoundTrip /\ WellFormedNames(fl_input)
    /\ \E n \in DOMAIN fl_input : ~fl_input[n].v.it
    /\ \E n \in DOMAIN fl_input : fl_input[n].v.it /\ Len(fl_input[n].v.v) >= 2
    /\ fl_status = "ok"

(***************************************************************************)
(* Observations, coordinates, data scaler and var_dim_mapper.  A dataset   *)
(* holds one coordinate array per dimension and, per data variable, its    *)
(* dimensions in native order and its values in row-major order.           *)
(***************************************************************************)

\* xr.Dataset(), the value __init__ assigns
EmptyDataset == [isds |-> TRUE, coords |-> <<>>, vars |-> <<>>]

\* a value that is no xr.Dataset
NotADataset == [isds |-> FALSE, coords |-> <<>>, vars |-> <<>>]

DataVar(name, dims, values) == [k |-> name, dims |-> dims, v |-> values]

Coord(dim, values) == [k |-> dim, v |-> values]

\* the datasets assigned as observations
Datasets ==
    { [isds |-> TRUE, coords |-> <<Coord("time", <<0, 1>>)>>,
       vars |-> <<DataVar("cext", <<"time">>, <<0, 3>>)>>],
      [isds |-> TRUE, coords |-> <<Coord("time", <<0, 1, 2>>)>>,
       vars |-> <<DataVar("cext", <<"time">>, <<1, 1, 1>>)>>],
      [isds |-> TRUE, coords |-> <<Coord("id", <<0, 1>>), Coord("time", <<0, 1>>)>>,
       vars |-> <<DataVar("cext", <<"id", "time">>, <<0, 1, 2, 3>>)>>],
      [isds |-> TRUE, coords |-> <<Coord("id", <<5, 6>>), Coord("time", <<0, 2, 4>>)>>,
       vars |-> <<DataVar("cext", <<"time", "id">>, <<1, 2, 1, 2, 1, 2>>)>>],
      [isds |-> TRUE, coords |-> <<Coord("id", <<7>>), Coord("time", <<0, 1>>)>>,
       vars |-> <<DataVar("cext", <<"id", "time">>, <<1, 2>>),
                  DataVar("cint", <<"time">>, <<0, 1>>)>>],
      [isds |-> TRUE, coords |-> <<Coord("id", <<0, 1>>), Coord("time", <<0>>)>>,
       vars |-> <<DataVar("cext", <<"time">>, <<3>>),
                  DataVar("cint", <<"id", "time">>, <<0, 1>>)>>],
      [isds |-> TRUE, coords |-> <<Coord("time", <<0, 1>>)>>,
       vars |-> <<DataVar("cint", <<"time">>, <<1, 2>>)>>],
      [isds |-> TRUE, coords |-> <<Coord("rep", <<0, 1>>), Coord("time", <<0>>)>>,
       vars |-> <<DataVar("cext", <<"rep", "time">>, <<1, 2>>)>>],
      [isds |-> TRUE,
       coords |-> <<Coord("id", <<0, 1>>), Coord("rep", <<0>>), Coord("time", <<0, 1>>)>>,
       vars |-> <<DataVar("cext", <<"id", "rep", "time">>, <<0, 1, 2, 3>>),
                  DataVar("cint", <<"rep", "time", "id">>, <<1, 1, 2, 2>>)>>],
      NotADataset }

\* config.simulation.dimensions and config.simulation.data_variables
DimensionChoices ==
    { <<>>, <<"time">>, <<"id", "time">>, <<"time", "id">>, <<"time", "id", "rep">> }

DataVariableChoices == { <<>>, <<"cext">>, <<"cext", "cint">> }

\* config.simulation.data_variables_min and data_variables_max
data_variables_min(data_variables) == [n \in DOMAIN data_variables |-> 1]

data_variables_max(data_variables) == [n \in DOMAIN data_variables |-> 2]

\* config.simulation.evaluator_dim_order
evaluator_dim_order == <<"id", "rep", "time">>

\* dataset[names]: the named variables, with the coordinates of their dimensions
SelectVars(ds, names) ==
    LET vs == [n \in DOMAIN names |-> ds.vars[CHOOSE m \in DOMAIN ds.vars :
                                                    ds.vars[m].k = names[n]]]
        used == UNION {Range(vs[n].dims) : n \in DOMAIN vs}
    IN  [isds |-> TRUE,
         coords |-> SelectSeq(ds.coords, LAMBDA c : c.k \in used),
         vars |-> vs]

\* dataset.dims
DsDims(ds) == DictKeys(ds.coords) \cup UNION {Range(ds.vars[n].dims) : n \in DOMAIN ds.vars}

DimSize(ds, dim) == Len(DictGet(ds.coords, dim))

RECURSIVE Product(_)
Product(sizes) == IF sizes = <<>> THEN 1 ELSE Head(sizes) * Product(Tail(sizes))

\* row-major position, from 0, of the index tuple idx in an array of shape sizes
RECURSIVE FlatIndex(_, _)
FlatIndex(idx, sizes) ==
    IF idx = <<>> THEN 0
    ELSE Head(idx) * Product(Tail(sizes)) + FlatIndex(Tail(idx), Tail(sizes))

\* the index tuple of row-major position p
RECURSIVE MultiIndex(_, _)
MultiIndex(p, sizes) ==
    IF sizes = <<>> THEN <<>>
    ELSE <<p \div Product(Tail(sizes))>>
            \o MultiIndex(p % Product(Tail(sizes)), Tail(sizes))

\* list.index
IndexOf(list, x) == (CHOOSE n \in DOMAIN list : list[n] = x) - 1

\* dataset.stack(multiindex=dimensions): the variable's column of the 2D array,
\* one row per index tuple over dimensions, broadcast over dimensions it lacks
StackedColumn(var, ds, dimensions) ==
    LET sizes == [n \in DOMAIN dimensions |-> DimSize(ds, dimensions[n])]
        vsizes == [n \in DOMAIN var.dims |-> DimSize(ds, var.dims[n])]
        at(idx) == var.v[FlatIndex([n \in DOMAIN var.dims |->
                                       idx[IndexOf(dimensions, var.dims[n]) + 1]],
                                   vsizes) + 1]
    IN  [p \in 1..Product(sizes) |-> at(MultiIndex(p - 1, sizes))]

SetMin(S) == CHOOSE x \in S : \A y \in S : x <= y

SetMax(S) == CHOOSE x \in S : \A y \in S : x >= y

\* a fit on the observations alone
ScalerFitObserved(sel, dimensions, lower_bounds, upper_bounds) ==
    [n \in DOMAIN sel.vars |->
        LET column == Range(StackedColumn(sel.vars[n], sel, dimensions))
        IN  [min |-> SetMin(column), max |-> SetMax(column)]]

\* MinMaxScaler.fit on the rows lower bounds, upper bounds, observations:
\* per variable the smallest and the largest value of its column
ScalerFit(sel, dimensions, lower_bounds, upper_bounds) ==
    [n \in DOMAIN sel.vars |->
        LET column == Range(StackedColumn(sel.vars[n], sel, dimensions))
                        \cup {lower_bounds[n], upper_bounds[n]}
        IN  [min |-> SetMin(column), max |-> SetMax(column)]]

\* MinMaxScaler.transform of one value, as the fraction num / den; a range
\* of zero is scaled by one
Transform(fit, value) ==
    [num |-> value - fit.min, den |-> IF fit.max = fit.min THEN 1 ELSE fit.max - fit.min]

\* scale_: the dataset rebuilt from the transformed 2D array; every variable
\* comes back over all the declared dimensions, in declared order
scale_(scaler, sel, dimensions) ==
    [isds |-> TRUE,
     coords |-> [n \in DOMAIN dimensions |->
                    Coord(dimensions[n], DictGet(sel.coords, dimensions[n]))],
     vars |-> [n \in DOMAIN sel.vars |->
                  LET column == StackedColumn(sel.vars[n], sel, dimensions)
                  IN  DataVar(sel.vars[n].k, dimensions,
                              [p \in DOMAIN column |-> Transform(scaler[n], column[p])])]]

\* create_data_scaler: the errors of the observations property, of the
\* selection of the data variables, of check_dimensions and of stack, then
\* the fit and the scaled copy
create_data_scaler(dimensions, data_variables, observations) ==
    LET raised(error) == [status |-> error, scaler |-> <<>>, scaled |-> EmptyDataset]
    IN  IF ~observations.isds THEN raised("AssertionError")
        ELSE IF \E n \in DOMAIN data_variables :
                    ~DictHas(observations.vars, data_variables[n])
        THEN raised("KeyError")
        ELSE LET sel == SelectVars(observations, data_variables)
             IN  IF ~(DsDims(sel) \subseteq Range(dimensions))
                 THEN raised("AssertionError")
                 ELSE IF ~(Range(dimensions) \subseteq DsDims(sel))
                 THEN raised("KeyError")
                 ELSE IF data_variables = <<>>
                 THEN raised("ValueError")
                 ELSE LET scaler == ScalerFit(sel, dimensions,
                                              data_variables_min(data_variables),
                                              data_variables_max(data_variables))
                      IN  [status |-> "ok", scaler |-> scaler,
                           scaled |-> scale_(scaler, sel, dimensions)]

\* set_coordinates: [self.observations[dim].values for dim in dimensions]
set_coordinates(dimensions, observations) ==
    [n \in DOMAIN dimensions |-> DictGet(observations.coords, dimensions[n])]

\* the coordinate data handed to create_coordinates: a list or tuple of
\* arrays, or one value that is neither
ListOf(items) == [islist |-> TRUE, items |-> items, value |-> <<>>]

Single(value) == [islist |-> FALSE, items |-> <<>>, value |-> value]

CoordinateInputs ==
    { ListOf(<<>>), ListOf(<< <<0, 1>> >>), ListOf(<< <<0>>, <<0, 1>> >>),
      ListOf(<< <<3>>, <<4>>, <<5>> >>), Single(<<0, 1, 2>>), Single(<<>>) }

\* if not isinstance(coordinate_data, (list, tuple)):
\*     coordinate_data = (coordinate_data, )
AsTuple(coordinate_data) ==
    IF coordinate_data.islist THEN coordinate_data.items ELSE <<coordinate_data.value>>

\* an assertion that only rejects too few arrays
CountsDifferOnlyFewer(n_dimensions, n_arrays) == n_arrays < n_dimensions

\* assert len(self.config.simulation.dimensions) == len(coordinate_data)
CountsDiffer(n_dimensions, n_arrays) == n_dimensions # n_arrays

\* create_coordinates
create_coordinates(dimensions, coordinate_data) ==
    LET arrays == AsTuple(coordinate_data)
    IN  IF CountsDiffer(Len(dimensions), Len(arrays))
        THEN [status |-> "AssertionError", coords |-> <<>>]
        ELSE [status |-> "ok", coords |-> DictUpdate(<<>>, Zip(dimensions, arrays))]

\* the sequence backwards
Reverse(seq) == [i \in DOMAIN seq |-> seq[Len(seq) + 1 - i]]

\* create_dim_index: observations, transposed to the declared dimensions, give
\* per data variable its dimensions; the entry lists, for each dimension of
\* evaluator_dim_order the variable has, its position among them.  transpose
\* wants a permutation of all dimensions of the dataset; called with no
\* dimension it reverses those of every variable
create_dim_index(dimensions, data_variables, observations) ==
    LET raised(error) == [status |-> error, mapper |-> <<>>]
    IN  IF ~observations.isds THEN raised("AssertionError")
        ELSE IF dimensions # <<>> /\ Range(dimensions) # DsDims(observations)
        THEN raised("ValueError")
        ELSE IF \E n \in DOMAIN data_variables :
                    ~DictHas(observations.vars, data_variables[n])
        THEN raised("KeyError")
        ELSE [status |-> "ok",
              mapper |->
                [n \in DOMAIN data_variables |->
                    LET var == SelectVars(observations, data_variables).vars[n]
                        obs_var_dims ==
                            IF dimensions = <<>> THEN Reverse(var.dims)
                            ELSE SelectSeq(dimensions, LAMBDA d : d \in Range(var.dims))
                        e_dims == SelectSeq(evaluator_dim_order,
                                            LAMBDA e : e \in Range(obs_var_dims))
                    IN  [k |-> data_variables[n],
                         v |-> [m \in DOMAIN e_dims |-> IndexOf(obs_var_dims, e_dims[m])]]]]

NoAssignment == [op |-> "none", status |-> "none", data |-> ListOf(<<>>)]

ObFrame == UNCHANGED <<flVars, dpVars, svVars, seedVars, raVars, saVars>>

\* the attributes as __init__ leaves them, with no configuration
ObIdle ==
    /\ ob_dims = <<>>
    /\ ob_datavars = <<>>
    /\ ob_obs = EmptyDataset
    /\ ob_coords = <<>>
    /\ ob_scaler = <<>>
    /\ ob_scaled = EmptyDataset
    /\ ob_mapper = <<>>
    /\ ob_indices = <<>>
    /\ ob_call = NoAssignment

\* SimulationBase.__init__ with a configuration
ObInit ==
    /\ ob_dims \in DimensionChoices
    /\ ob_datavars \in DataVariableChoices
    /\ ob_obs = EmptyDataset
    /\ ob_coords = <<>>
    /\ ob_scaler = <<>>
    /\ ob_scaled = EmptyDataset
    /\ ob_mapper = <<>>
    /\ ob_indices = <<>>
    /\ ob_call = NoAssignment

\* observations.setter: the value is stored first, then create_data_scaler,
\* then set_coordinates and the coordinates setter
SetObservations ==
    /\ \E value \in Datasets :
        LET s == create_data_scaler(ob_dims, ob_datavars, value)
            c == create_coordinates(ob_dims, ListOf(set_coordinates(ob_dims, value)))
        IN  /\ ob_obs' = value
            /\ IF s.status # "ok"
               THEN /\ ob_call' = [NoAssignment EXCEPT !.op = "observations",
                                                       !.status = s.status]
                    /\ UNCHANGED <<ob_scaler, ob_scaled, ob_coords>>
               ELSE /\ ob_scaler' = s.scaler
                    /\ ob_scaled' = s.scaled
                    /\ ob_call' = [NoAssignment EXCEPT !.op = "observations",
                                                       !.status = c.status]
                    /\ IF c.status # "ok" THEN UNCHANGED ob_coords
                       ELSE ob_coords' = c.coords
    /\ UNCHANGED <<ob_dims, ob_datavars, ob_mapper, ob_indices>>
    /\ ObFrame

\* coordinates.setter: self._coordinates = self.create_coordinates(value)
SetCoordinates ==
    /\ \E value \in CoordinateInputs :
        LET c == create_coordinates(ob_dims, value)
        IN  /\ ob_call' = [op |-> "coordinates", status |-> c.status, data |-> value]
            /\ IF c.status # "ok" THEN UNCHANGED ob_coords
               ELSE ob_coords' = c.coords
    /\ UNCHANGED <<ob_dims, ob_datavars, ob_obs, ob_scaler, ob_scaled, ob_mapper,
                   ob_indices>>
    /\ ObFrame

(***************************************************************************)
(* Evaluator dispatch.  self.model_parameters is a dict of two dicts; the  *)
(* two inner dicts are objects with an identity ("P0" the parameters, "Y0" *)
(* the initial values), and what refers to them holds the identity.        *)
(***************************************************************************)
MaxDispatch == 2

\* the names of self.free_model_parameters
FreeNames == {"alpha"}

\* Param(name, value)
Param(name, value) == [k |-> name, v |-> value]

\* theta: a list of Param objects; "gamma" is a name that is no parameter of
\* the model, "beta" the name of a fixed parameter
Thetas ==
    { <<>>,
      <<Param("alpha", 1)>>,
      <<Param("alpha", 2)>>,
      <<Param("alpha", 1), Param("gamma", 1)>>,
      <<Param("beta", 2), Param("alpha", 2)>> }

\* the fixed parameter values a simulation may start with
FixedChoices == { <<>>, <<[k |-> "beta", v |-> 0]>> }

Y0Values == <<[k |-> "cext", v |-> 1]>>

\* the two dict objects of a simulation whose parameters were set to fixed
SimObjects(fixed) == [P0 |-> fixed, Y0 |-> Y0Values]

\* the parameters the model knows: the free ones and the fixed ones
KnownNames(fixed) == FreeNames \cup {fixed[n].k : n \in DOMAIN fixed}

\* theta carries a name that is no parameter of the model
HasUnknownName(theta, fixed) == \E n \in DOMAIN theta : theta[n].k \notin KnownNames(fixed)

\* as a mapping, without the order of the items
DictAsSet(d) == {d[n] : n \in DOMAIN d}

\* parameterize(free_parameters, model_parameters): parameters is the dict
\* model_parameters["parameters"] itself; update() writes into it, and the
\* returned mapping refers to the same two objects
parameterize(free_parameters, heap) ==
    [heap |-> [heap EXCEPT !.P0 = DictUpdate(heap.P0, free_parameters)],
     ret |-> [y0 |-> "Y0", parameters |-> "P0"]]

\* Evaluator(parameters=model_parameters, ...): the evaluator keeps what it is
\* given; merged records fixed values merged with theta, for the claims
Evaluator(model_parameters, var_dim_mapper, coordinates, indices, merged) ==
    [parameters |-> model_parameters.parameters,
     y0 |-> model_parameters.y0,
     var_dim_mapper |-> var_dim_mapper,
     coordinates |-> coordinates,
     indices |-> indices,
     merged |-> merged,
     invoked |-> FALSE]

\* the parameters evaluator e holds, read through its reference
EvalParameters(e) == dp_heap[e.parameters]

\* fnmatch of one path segment: * stands for any run of characters, ? for one
RECURSIVE GlobMatch(_, _)
GlobMatch(pat, str) ==
    IF pat = <<>> THEN str = <<>>
    ELSE IF Head(pat) = "*"
    THEN GlobMatch(Tail(pat), str) \/ (str # <<>> /\ GlobMatch(pat, Tail(str)))
    ELSE IF str = <<>> THEN FALSE
    ELSE (Head(pat) = "?" \/ Head(pat) = Head(str)) /\ GlobMatch(Tail(pat), Tail(str))

\* dp.set(config, glob=par, value=val): every existing key the glob matches is
\* set; the count of keys set is returned
DpSetConfig(config, par, val) ==
    [n \in DOMAIN config |->
        IF GlobMatch(par, config[n].k) THEN [k |-> config[n].k, v |-> val]
        ELSE config[n]]

DpSetCount(config, par) ==
    Cardinality({n \in DOMAIN config : GlobMatch(par, config[n].k)})

\* if key_exist != 1: raise KeyError
KeyMissing(key_exist) == key_exist # 1

\* update_parameters_dict: the loop; the config is written before the test
RECURSIVE UpdateLoop(_, _)
UpdateLoop(pairs, config) ==
    IF pairs = <<>> THEN [status |-> "ok", config |-> config]
    ELSE LET par == Head(pairs).k
             val == Head(pairs).v
             key_exist == DpSetCount(config, par)
             written == DpSetConfig(config, par, val)
         IN  IF KeyMissing(key_exist)
             THEN [status |-> "KeyError", config |-> written]
             ELSE UpdateLoop(Tail(pairs), written)

update_parameters_dict(config, x, parnames) == UpdateLoop(Zip(parnames, x), config)

\* the config a caller passes to update_parameters_dict
UpConfig ==
    <<[k |-> <<"k">>, v |-> 0], [k |-> <<"k", "d">>, v |-> 0], [k |-> <<"r">>, v |-> 0]>>

\* the names and values it passes: keys, a name that is no key, globs that
\* match one key or several, and a value list shorter than the name list
UpCalls ==
    { [parnames |-> <<>>, x |-> <<>>],
      [parnames |-> << <<"k">> >>, x |-> <<1>>],
      [parnames |-> << <<"q">> >>, x |-> <<1>>],
      [parnames |-> << <<"k", "*">> >>, x |-> <<1>>],
      [parnames |-> << <<"r", "*">> >>, x |-> <<1>>],
      [parnames |-> << <<"k">>, <<"q">> >>, x |-> <<1, 2>>],
      [parnames |-> << <<"k">>, <<"q">> >>, x |-> <<1>>],
      [parnames |-> << <<"k">>, <<"k", "d">> >>, x |-> <<1, 2>>],
      [parnames |-> << <<"?">>, <<"r">> >>, x |-> <<1, 2>>] }

NoCall == [op |-> "none", status |-> "none", unknown |-> FALSE,
           parnames |-> <<>>, x |-> <<>>, after |-> <<>>, returned |-> FALSE,
           warned |-> FALSE]

\* the source of a model function, in pieces of text: what inspect.getsource
\* gives, or nothing where the source cannot be had
\* values is the number of values the function returns when called
Source(text, values) == [available |-> TRUE, text |-> text, values |-> values]

NoSource == [available |-> FALSE, text |-> <<>>, values |-> 2]

Models ==
    << Source(<<"def", " ", "f(t,y)", ":", "\n",
                " ", "return", " ", "dx", ",", " ", "dy", "\n">>, 2),
       Source(<<"def", " ", "f(t,y)", ":", "\n",
                " ", "return", " ", "dx", "\n">>, 1),
       Source(<<"def", " ", "f(t,y)", ":", "\n",
                " ", "return", " ", "g", "(", "a", ",", " ", "b", ")", ",", " ", "dy", "\n">>, 2),
       Source(<<"def", " ", "f(t,y)", ":", "\n",
                " ", "return", " ", "(", "\n",
                " ", "dx", ",", " ", "dy", "\n",
                " ", ")", "\n">>, 2),
       NoSource >>

\* the configured state count with the model it comes with: -1 stands for a
\* count that is not configured
OdeStateConfigs ==
    {[n |-> -1, model |-> m] : m \in DOMAIN Models} \cup {[n |-> 2, model |-> 1]}

\* str.split(sep) on a text in pieces
RECURSIVE SplitOn(_, _)
SplitOn(text, sep) ==
    IF \A i \in DOMAIN text : text[i] # sep THEN <<text>>
    ELSE LET at == CHOOSE i \in DOMAIN text :
                        text[i] = sep /\ \A j \in 1..(i - 1) : text[j] # sep
         IN  <<SubSeq(text, 1, at - 1)>> \o SplitOn(SubSeq(text, at + 1, Len(text)), sep)

\* get_return_arguments: the last line but one of the source, what follows
\* its first "return", without blanks, split at the commas; an index out of
\* range raises IndexError, a source that cannot be had OSError
get_return_arguments(func) ==
    LET raised(error) == [status |-> error, args |-> <<>>]
    IN  IF ~func.available THEN raised("OSError")
        ELSE LET lines == SplitOn(func.text, "\n")
             IN  IF Len(lines) < 2 THEN raised("IndexError")
                 ELSE LET return_statement == lines[Len(lines) - 1]
                          pieces == SplitOn(return_statement, "return")
                      IN  IF Len(pieces) < 2 THEN raised("IndexError")
                          ELSE [status |-> "ok",
                                args |-> SplitOn(SelectSeq(pieces[2], LAMBDA c : c # " "),
                                                 ",")]

\* infer_ode_states: the configured count, or the number of return arguments
\* with a warning, or -1 with a warning where they cannot be extracted
infer_ode_states(n_ode_states, model) ==
    IF n_ode_states = -1
    THEN LET r == get_return_arguments(model)
         IN  IF r.status = "ok" THEN [n |-> Len(r.args), warned |-> TRUE]
             ELSE [n |-> -1, warned |-> TRUE]
    ELSE [n |-> n_ode_states, warned |-> FALSE]

DpFrame == UNCHANGED <<flVars, obVars, svVars, seedVars, raVars, saVars>>

DpIdle ==
    /\ dp_heap = [P0 |-> <<>>, Y0 |-> <<>>]
    /\ dp_fixed = <<>>
    /\ dp_n_ode_states = -1
    /\ dp_model = NoSource
    /\ dp_setup = FALSE
    /\ dp_evals = <<>>
    /\ dp_call = NoCall

\* SimulationBase.__init__ and the initialisation of model_parameters
DpInit ==
    /\ dp_fixed \in FixedChoices
    /\ \E c \in OdeStateConfigs :
        /\ dp_n_ode_states = c.n
        /\ dp_model = Models[c.model]
    /\ dp_heap = SimObjects(dp_fixed)
    /\ dp_setup = FALSE
    /\ dp_evals = <<>>
    /\ dp_call = NoCall

\* setup(): create_dim_index reads the observations and may raise; after it
\* self.parameterize = partial(self.parameterize,
\*                             model_parameters=self.model_parameters)
Setup ==
    /\ LET m == create_dim_index(ob_dims, ob_datavars, ob_obs)
       IN  IF m.status # "ok"
           THEN /\ dp_call' = [NoCall EXCEPT !.op = "setup", !.status = m.status]
                /\ UNCHANGED <<ob_mapper, dp_setup, dp_n_ode_states>>
           ELSE LET inferred == infer_ode_states(dp_n_ode_states, dp_model)
                IN  /\ ob_mapper' = m.mapper
                    /\ dp_setup' = TRUE
                    /\ dp_n_ode_states' = inferred.n
                    /\ dp_call' = [NoCall EXCEPT !.op = "setup", !.status = "ok",
                                                 !.warned = inferred.warned]
    /\ UNCHANGED <<dp_heap, dp_fixed, dp_evals, dp_model>>
    /\ UNCHANGED <<ob_dims, ob_datavars, ob_obs, ob_coords, ob_scaler, ob_scaled,
                   ob_indices, ob_call>>
    /\ UNCHANGED <<flVars, svVars, seedVars, raVars, saVars>>

\* dispatch(theta).  Before setup() parameterize still wants its second
\* argument and the call raises TypeError.
Dispatch ==
    /\ Len(dp_evals) < MaxDispatch
    /\ \E theta \in Thetas :
        IF ~dp_setup
        THEN /\ dp_call' = [NoCall EXCEPT !.op = "dispatch", !.status = "TypeError",
                                          !.unknown = HasUnknownName(theta, dp_fixed)]
             /\ UNCHANGED <<dp_heap, dp_evals>>
        ELSE LET r == parameterize(theta, dp_heap)
             IN  /\ dp_heap' = r.heap
                 /\ dp_evals' = Append(dp_evals,
                                        Evaluator(r.ret, ob_mapper, ob_coords, ob_indices,
                                                  DictUpdate(dp_fixed, theta)))
                 /\ dp_call' = [NoCall EXCEPT !.op = "dispatch", !.status = "ok",
                                              !.unknown = HasUnknownName(theta, dp_fixed),
                                              !.returned = TRUE]
    /\ UNCHANGED <<dp_fixed, dp_setup, dp_n_ode_states, dp_model>>
    /\ DpFrame

\* evaluator(): the evaluator solves with the parameters it holds and keeps the
\* results; it writes nothing of the simulation
Invoke ==
    /\ \E i \in DOMAIN dp_evals :
        /\ ~dp_evals[i].invoked
        /\ dp_evals' = [dp_evals EXCEPT ![i].invoked = TRUE]
    /\ dp_call' = [NoCall EXCEPT !.op = "invoke", !.status = "ok"]
    /\ UNCHANGED <<dp_heap, dp_fixed, dp_setup, dp_n_ode_states, dp_model>>
    /\ DpFrame

\* update_parameters_dict(config, x, parnames) on a caller's config
UpdateParametersDict ==
    /\ \E c \in UpCalls :
        LET r == update_parameters_dict(UpConfig, c.x, c.parnames)
        IN  dp_call' = [NoCall EXCEPT !.op = "update", !.status = r.status,
                                      !.parnames = c.parnames, !.x = c.x,
                                      !.after = r.config,
                                      !.returned = (r.status = "ok")]
    /\ UNCHANGED <<dp_heap, dp_fixed, dp_setup, dp_evals, dp_n_ode_states, dp_model>>
    /\ DpFrame

DpNext == Setup \/ Dispatch \/ Invoke \/ UpdateParametersDict

\* a simulation whose observations have been assigned
ReadyObservations ==
    [isds |-> TRUE, coords |-> <<Coord("id", <<0, 1>>), Coord("time", <<0, 1>>)>>,
     vars |-> <<DataVar("cext", <<"id", "time">>, <<0, 1, 2, 3>>)>>]

ObReady ==
    /\ ob_dims = <<"id", "time">>
    /\ ob_datavars = <<"cext">>
    /\ ob_obs = ReadyObservations
    /\ ob_coords = create_coordinates(ob_dims,
                        ListOf(set_coordinates(ob_dims, ob_obs))).coords
    /\ ob_scaler = create_data_scaler(ob_dims, ob_datavars, ob_obs).scaler
    /\ ob_scaled = create_data_scaler(ob_dims, ob_datavars, ob_obs).scaled
    /\ ob_mapper = <<>>
    /\ ob_indices = <<>>
    /\ ob_call = [NoAssignment EXCEPT !.op = "observations", !.status = "ok"]

ObNext == SetObservations \/ SetCoordinates \/ Setup

(***************************************************************************)
(* Claims on observations and coordinates                                  *)
(***************************************************************************)

\* coordinates hold exactly one array per declared dimension, the one the
\* observations hold for it
CoordinatesReadFrom(coordinates, observations) ==
    /\ Len(coordinates) = Len(ob_dims)
    /\ \A n \in DOMAIN ob_dims :
        /\ coordinates[n].k = ob_dims[n]
        /\ coordinates[n].v = DictGet(observations.coords, ob_dims[n])

\* the scaler holds, per data variable, the smallest and the largest of the
\* declared bounds and the values observed of the variable, and the scaled
\* observations are the observations transformed with it
ScalerFittedOn(scaler, scaled, observations) ==
    /\ Len(scaler) = Len(ob_datavars)
    /\ \A n \in DOMAIN ob_datavars :
        LET values == Range(DictGet(observations.vars, ob_datavars[n]))
                        \cup {data_variables_min(ob_datavars)[n],
                              data_variables_max(ob_datavars)[n]}
        IN  /\ scaler[n].min \in values /\ \A x \in values : scaler[n].min <= x
            /\ scaler[n].max \in values /\ \A x \in values : scaler[n].max >= x
    /\ scaled = scale_(scaler, SelectVars(observations, ob_datavars), ob_dims)

\* the var_dim_mapper is none yet, or the one create_dim_index builds from
\* these observations (where it builds one)
MapperDerivedFrom(mapper, observations) ==
    LET m == create_dim_index(ob_dims, ob_datavars, observations)
    IN  mapper = <<>> \/ m.status # "ok" \/ mapper = m.mapper

\* ndarray.transpose(perm): axis i of the result is axis perm[i] of the array
Transposed(axes, perm) == [i \in DOMAIN perm |-> axes[perm[i] + 1]]

\* the dimensions of a data variable of the observations, in the order of the
\* sequence order
DimsInOrder(name, order) ==
    LET var == ob_obs.vars[CHOOSE n \in DOMAIN ob_obs.vars : ob_obs.vars[n].k = name]
    IN  SelectSeq(order, LAMBDA d : d \in Range(var.dims))

\* every entry of the var_dim_mapper, applied to axes in the order of
\* evaluator_dim_order, gives them in the declared order
MapperPermutes ==
    \A n \in DOMAIN ob_mapper :
        Transposed(DimsInOrder(ob_mapper[n].k, evaluator_dim_order), ob_mapper[n].v)
            = DimsInOrder(ob_mapper[n].k, ob_dims)

\* C18: for every data variable, of any number of dimensions, the entry
\* create_dim_index builds is the permutation that takes axes in the
\* evaluator's dimension order, restricted to the variable's dimensions, to
\* the declared simulation dimension order.
C18_MapperPermutesToDeclaredOrder ==
    [][(Setup /\ dp_call'.status = "ok" /\ ob_dims # <<>>) => MapperPermutes']_vars

\* the values observed of the n-th data variable
Observed(n) ==
    Range(ob_obs.vars[CHOOSE m \in DOMAIN ob_obs.vars : ob_obs.vars[m].k = ob_datavars[n]].v)

\* C20: the range the scaler is fitted with is, for every data variable,
\* from the smaller of the declared lower bound and the smallest observed
\* value to the larger of the declared upper bound and the largest observed
\* value: it contains the declared bounds.
C20_ScalerRange ==
    (ob_call.op = "observations" /\ ob_call.status = "ok") =>
        /\ DOMAIN ob_scaler = DOMAIN ob_datavars
        /\ \A n \in DOMAIN ob_datavars :
            LET lower == data_variables_min(ob_datavars)[n]
                upper == data_variables_max(ob_datavars)[n]
            IN  /\ ob_scaler[n].min = SetMin({lower, SetMin(Observed(n))})
                /\ ob_scaler[n].max = SetMax({upper, SetMax(Observed(n))})
                /\ ob_scaler[n].min <= lower
                /\ ob_scaler[n].max >= upper

\* observations were assigned with a variable observed below its lower bound
\* and not up to its upper bound: the range starts at the observed value and
\* ends at the declared bound
C20_Witness ==
    /\ ob_call.op = "observations" /\ ob_call.status = "ok"
    /\ \E n \in DOMAIN ob_datavars :
        /\ ob_scaler[n].min < data_variables_min(ob_datavars)[n]
        /\ SetMax(Observed(n)) < data_variables_max(ob_datavars)[n]
        /\ ob_scaler[n].max = data_variables_max(ob_datavars)[n]

\* C21: after a fit on observations, whatever their range, the transform
\* takes the declared lower bound of every variable to 0 and the declared
\* upper bound to 1.
C21_BoundsScaleToUnitInterval ==
    (ob_call.op = "observations" /\ ob_call.status = "ok") =>
        \A n \in DOMAIN ob_datavars :
            LET lower == Transform(ob_scaler[n], data_variables_min(ob_datavars)[n])
                upper == Transform(ob_scaler[n], data_variables_max(ob_datavars)[n])
            IN  lower.num = 0 /\ upper.num = upper.den

\* C22: a setup of a simulation whose configuration declares no data
\* variables or no dimensions does not complete: it ends in an error.
C22_EmptyConfigurationRejected ==
    (dp_call.op = "setup" /\ (ob_datavars = <<>> \/ ob_dims = <<>>))
        => dp_call.status # "ok"

\* C9 as stated: after an assignment of observations the coordinates, the
\* scaler and the scaled observations are those of the assigned observations,
\* and nothing derived from earlier observations remains.
C9_NothingStaleAfterAssignment ==
    (ob_call.op = "observations" /\ ob_call.status = "ok")
        => /\ CoordinatesReadFrom(ob_coords, ob_obs)
           /\ ScalerFittedOn(ob_scaler, ob_scaled, ob_obs)
           /\ MapperDerivedFrom(ob_mapper, ob_obs)

\* the number of arrays create_coordinates counts
ArrayCount(coordinate_data) ==
    IF coordinate_data.islist THEN Len(coordinate_data.items) ELSE 1

\* C10: create_coordinates fails with the configuration error exactly when
\* the number of declared dimensions differs from the number of arrays, a
\* value that is no list counting as one; otherwise the mapping pairs the
\* i-th declared dimension with the i-th array, in declared order.
C10_CreateCoordinates ==
    ob_call.op = "coordinates"
        => /\ ob_call.status \in {"ok", "AssertionError"}
           /\ ob_call.status = "AssertionError"
                <=> Len(ob_dims) # ArrayCount(ob_call.data)
           /\ ob_call.status = "ok"
                => /\ Len(ob_coords) = Len(ob_dims)
                   /\ \A i \in DOMAIN ob_dims :
                       /\ ob_coords[i].k = ob_dims[i]
                       /\ ob_coords[i].v = IF ob_call.data.islist
                                           THEN ob_call.data.items[i]
                                           ELSE ob_call.data.value

\* two dimensions declared, one value that is no list supplied: the error,
\* after an earlier call with two arrays had returned their mapping
C10_Witness ==
    /\ ob_call.op = "coordinates"
    /\ ob_call.status = "AssertionError"
    /\ Len(ob_dims) = 2
    /\ ~ob_call.data.islist
    /\ Len(ob_coords) = 2

(***************************************************************************)
(* Claims on dispatch                                                      *)
(***************************************************************************)

\* C2: every evaluator dispatched so far holds the fixed values merged with
\* the theta of its own dispatch, whatever was dispatched after it.
C2_EvaluatorKeepsItsParameters ==
    \A i \in DOMAIN dp_evals :
        DictAsSet(EvalParameters(dp_evals[i])) = DictAsSet(dp_evals[i].merged)

\* what C3 names of the simulation: model_parameters (parameters and y0),
\* coordinates, indices and var_dim_mapper
SimulationContext == <<DictAsSet(dp_heap.P0), dp_heap.Y0, ob_coords, ob_indices, ob_mapper>>

\* C3: no dispatch and no invocation of an evaluator changes the
\* model_parameters (fixed parameter values and y0), coordinates, indices or
\* var_dim_mapper of the simulation.
C3_SimulationNotMutated ==
    [][(Dispatch \/ Invoke) => SimulationContext' = SimulationContext]_vars

\* a name update_parameters_dict is given matches no key or several keys
HasUnmatchedName(parnames, config) ==
    \E n \in DOMAIN parnames : DpSetCount(config, parnames[n]) # 1

\* C8: a theta with a name that is no known parameter raises 'parameter name
\* not found' at dispatch, and so does update_parameters_dict for a name that
\* matches no key or more than one key; nothing is returned.
C8_UnknownNamesAreFatal ==
    /\ (dp_call.op = "dispatch" /\ dp_setup /\ dp_call.unknown)
            => (dp_call.status = "KeyError" /\ ~dp_call.returned)
    /\ (dp_call.op = "update" /\ Len(dp_call.x) = Len(dp_call.parnames)
            /\ HasUnmatchedName(dp_call.parnames, UpConfig))
            => (dp_call.status = "KeyError" /\ ~dp_call.returned)

\* C28: when update_parameters_dict raises because a name is not found, the
\* config is what it was before the call: no value of a name earlier in the
\* call has been written.
C28_UpdateIsAllOrNothing ==
    (/\ dp_call.op = "update"
     /\ dp_call.status = "KeyError"
     /\ \A n \in DOMAIN dp_call.parnames : DpSetCount(UpConfig, dp_call.parnames[n]) <= 1)
        => dp_call.after = UpConfig

\* C23: infer_ode_states, as setup calls it, leaves a configured state count
\* as it is and warns of nothing; for a count that is not configured (-1) it
\* warns and gives the number of values the model function returns, or -1
\* where the return arguments cannot be extracted from the source.
C23_StateCountInferred ==
    [][(Setup /\ dp_call'.status = "ok") =>
          IF dp_n_ode_states # -1
          THEN dp_n_ode_states' = dp_n_ode_states /\ ~dp_call'.warned
          ELSE /\ dp_call'.warned
               /\ IF get_return_arguments(dp_model).status = "ok"
                  THEN dp_n_ode_states' = dp_model.values
                  ELSE dp_n_ode_states' = -1]_vars

(***************************************************************************)
(* JaxSolver: solve maps odesolve over the batch; diffeqsolve integrates   *)
(* each element from the first to the last saved time in adaptive steps,   *)
(* at most max_steps of them.  Time is counted in whole units.             *)
(***************************************************************************)
MaxSteps == 3
MaxStepLen == 2

\* the lengths of the batch axis tried: a single element, and two
BatchSizes == {1, 2}

\* the elements of the batch axis vmap maps over
Batch == 1..sv_batch

\* self.x, the times of SaveAt(ts=self.x)
SaveTs == <<0, 2, 4>>

\* t0=t_min, t1=t_max
t_min == SaveTs[1]

t_max == SaveTs[Len(SaveTs)]

\* the ODE states, tuple(y0.keys())
OdeStates == <<"cext", "cint">>

\* a ceiling that lets one step too many pass
HitMaxStepsLate(t, steps, max_steps) == t < t_max /\ steps > max_steps

\* the integration of an element has hit the step ceiling before t1
HitMaxSteps(t, steps, max_steps) == t < t_max /\ steps >= max_steps

\* a solver that leaves the value at the time it broke unsaved, too
SavedBefore(ts, t_b) == ts < t_b

\* SaveAt(ts=...): a time is saved once the integration has reached it; with
\* throw=False the values at all t > t_b stay inf, t_b the time reached
Saved(ts, t_b) == ts <= t_b

\* sol.ys of one element: per ODE state the values at the saved times
SolYs(t_b) ==
    [v \in DOMAIN OdeStates |->
        [n \in DOMAIN SaveTs |-> IF Saved(SaveTs[n], t_b) THEN "finite" ELSE "inf"]]

NoResult == [b \in Batch |-> <<>>]

\* x_in without forcing: len(x_in) = 0
NoForcing == [present |-> FALSE, ts |-> <<>>]

\* x_in with forcing: x_in[0] holds the breakpoints, the time coordinate of
\* the forcing
Forcing(ts) == [present |-> TRUE, ts |-> ts]

\* the forcings tried: none, breakpoints before the first and between the
\* saved times, breakpoints on the first and on the last saved time, and
\* breakpoints after the last
Forcings ==
    {NoForcing, Forcing(<<-1, 1, 3>>), Forcing(<<0, 2, 4>>), Forcing(<<3, 5>>)}

\* jump_ts=None
NoJumps == [present |-> FALSE, ts |-> <<>>]

\* a selection that keeps the breakpoint on the last saved time
BeforeOrAt(coordinate, x_last) == coordinate <= x_last

\* coordinates_input_vars["x_in"][x_dim] < self.x[-1]
Before(coordinate, x_last) == coordinate < x_last

\* jumps of odesolve: the breakpoints of x_in[0] selected by the mask over
\* the time coordinate of the forcing, None without forcing
Jumps(x_in, coordinates_x_in, x_last) ==
    IF x_in.present
    THEN [present |-> TRUE,
          ts |-> LET Sel[i \in 0..Len(x_in.ts)] ==
                        IF i = 0 THEN <<>>
                        ELSE IF Before(coordinates_x_in[i], x_last)
                             THEN Append(Sel[i - 1], x_in.ts[i])
                             ELSE Sel[i - 1]
                 IN Sel[Len(x_in.ts)]]
    ELSE NoJumps

\* the time an accepted step from t of wished length dt ends at: clipped to
\* the next of jump_ts after t and to t1
StepTo(t, dt, jumps) ==
    SetMin({t + dt, t_max} \cup {j \in Range(jumps.ts) : j > t})

\* the post-processing functions tried: one that returns the trajectories it
\* was given, one that adds a derived variable to them, and one that returns
\* the derived variable alone
PostProcessings == {"results", "results_and_derived", "derived"}

\* one positional argument of odesolve_splitargs
Arg(group, n) == [group |-> group, n |-> n]

Args(group, count) == [n \in 1..count |-> Arg(group, n)]

\* self.preprocess_y_0(y0): one argument per entry of y0, in the order of
\* its keys
preprocess_y_0(y0) == Args("y0", Len(y0))

\* Y_0 = self.preprocess_y_0(y0): one argument per ODE state
Y_0 == preprocess_y_0(OdeStates)

\* ode_args, pp_args = self.preprocess_parameters(parameters): the parameters
\* of the model, and those of the post-processing function
preprocess_parameters(pp) ==
    [ode_args |-> Args("ode", 2),
     pp_args |-> Args("pp", IF pp = "results" THEN 0 ELSE 1)]

\* x_in_flat = [x for xi in X_in for x in xi]: the breakpoints and the values
\* of the forcing, nothing without forcing
x_in_flat(x_in) == IF x_in.present THEN Args("x_in", 2) ELSE <<>>

\* args[from:to] of python
Slice(args, from, to) ==
    LET hi == IF to < Len(args) THEN to ELSE Len(args)
    IN IF from >= hi THEN <<>> ELSE SubSeq(args, from + 1, hi)

\* a split whose post-processing arguments start where those of the model start
SplitArgsOverlapping(args, n_odestates, n_odeargs, n_ppargs, n_xin) ==
    [y0 |-> Slice(args, 0, n_odestates),
     odeargs |-> Slice(args, n_odestates, n_odeargs + n_odestates),
     ppargs |-> Slice(args, n_odestates, n_odestates + n_ppargs),
     x_in |-> Slice(args, n_odestates + n_odeargs + n_ppargs,
                    n_odestates + n_odeargs + n_ppargs + n_xin)]

\* the four slices odesolve_splitargs takes of its positional arguments
SplitArgs(args, n_odestates, n_odeargs, n_ppargs, n_xin) ==
    [y0 |-> Slice(args, 0, n_odestates),
     odeargs |-> Slice(args, n_odestates, n_odeargs + n_odestates),
     ppargs |-> Slice(args, n_odeargs + n_odestates, n_odeargs + n_odestates + n_ppargs),
     x_in |-> Slice(args, n_odestates + n_odeargs + n_ppargs,
                    n_odestates + n_odeargs + n_ppargs + n_xin)]

\* the trajectory a post-processing function derives from those of the states
Derived(sol) ==
    [n \in DOMAIN SaveTs |->
        IF \E v \in DOMAIN sol : sol[v][n] = "inf" THEN "inf" ELSE "finite"]

\* self.post_processing(res_dict, x, interp, *ppargs)
post_processing(pp, res_dict, x, interp, ppargs) ==
    LET derived == <<[k |-> "ctot", v |-> Derived([n \in DOMAIN res_dict |-> res_dict[n].v])]>>
    IN CASE pp = "results" -> res_dict
         [] pp = "results_and_derived" -> res_dict \o derived
         [] pp = "derived" -> derived

\* a solve of one batch element that leaves post_processing out where the
\* integration stopped short of the last time, and returns the trajectories
odesolve_skipping(args, odestates, n_odeargs, n_ppargs, n_xin, pp, t_b) ==
    LET res_dict == Zip(odestates, SolYs(t_b))
    IN  IF t_b < t_max
        THEN [call |-> [res_dict |-> <<>>, x |-> <<>>, interp |-> "None", ppargs |-> <<>>],
              ret |-> res_dict]
        ELSE [call |-> [res_dict |-> res_dict, x |-> SaveTs, interp |-> "None",
                        ppargs |-> <<>>],
              ret |-> post_processing(pp, res_dict, SaveTs, "None", <<>>)]

\* odesolve_splitargs of one batch element whose integration reached t_b: the
\* arguments post_processing is called with, and what it returns
odesolve_splitargs(args, odestates, n_odeargs, n_ppargs, n_xin, pp, t_b) ==
    LET n_odestates == Len(odestates)
        split == SplitArgs(args, n_odestates, n_odeargs, n_ppargs, n_xin)
        ppargs == split.ppargs
        x_in == split.x_in
        interp == IF Len(x_in) > 0 THEN "LinearInterpolation" ELSE "None"
        res_dict == Zip(odestates, SolYs(t_b))
    IN [call |-> [res_dict |-> res_dict, x |-> SaveTs, interp |-> interp, ppargs |-> ppargs],
        ret |-> post_processing(pp, res_dict, SaveTs, interp, ppargs)]

NoPpCall == [b \in Batch |-> [res_dict |-> <<>>, x |-> <<>>, interp |-> "None", ppargs |-> <<>>]]

\* rows one after the other: the elements of an array in row-major order
RECURSIVE Flat(_)
Flat(rows) == IF rows = <<>> THEN <<>> ELSE Head(rows) \o Flat(Tail(rows))

\* an array: its shape and its elements in row-major order
Array(shape, flat) == [shape |-> shape, flat |-> flat]

\* what reshape gives when the sizes disagree: it raises
NotAnArray == Array(<<-1>>, <<>>)

\* a reshape that only drops a leading axis of length one
Squeeze(val, expected_dims) ==
    IF Head(val.shape) = 1 THEN Array(Tail(val.shape), val.flat) ELSE val

\* val.reshape(expected_dims): the same elements in the same order under the
\* new shape
Reshape(val, expected_dims) ==
    IF Product(expected_dims) = Len(val.flat)
    THEN Array(expected_dims, val.flat)
    ELSE NotAnArray

\* loop_eval = jax.vmap(initialized_eval_func): the mappings of the elements,
\* stacked along a leading batch axis
Vmap(rets) ==
    [n \in DOMAIN rets[1] |->
        [k |-> rets[1][n].k,
         v |-> Array(<<Len(rets), Len(rets[1][n].v)>>,
                     Flat([b \in DOMAIN rets |-> rets[b][n].v]))]]

\* the sizes a data structure declares for every output variable: batch and
\* time, time and batch, or time alone where the batch axis has length one
Layouts(batch) ==
    {<<"id", "time">>, <<"time", "id">>} \cup (IF batch = 1 THEN {<<"time">>} ELSE {})

\* tuple(self.data_structure_and_dimensionality[v].values())
ExpectedDims(ds, batch) ==
    [n \in DOMAIN ds |-> IF ds[n] = "id" THEN batch ELSE Len(SaveTs)]

\* the loop over result.items() of solve
ReshapeAll(result, ds, batch) ==
    [n \in DOMAIN result |->
        [k |-> result[n].k, v |-> Reshape(result[n].v, ExpectedDims(ds, batch))]]

SvFrame == UNCHANGED <<flVars, obVars, dpVars, seedVars, raVars, saVars>>

SvIdle ==
    /\ sv_batch = 1
    /\ sv_pp = "results"
    /\ sv_ds = <<"time">>
    /\ sv_ppcall = NoPpCall
    /\ sv_out = <<>>
    /\ sv_throw = TRUE
    /\ sv_max_steps = 0
    /\ sv_pc = "off"
    /\ sv_t = [b \in Batch |-> 0]
    /\ sv_steps = [b \in Batch |-> 0]
    /\ sv_result = NoResult
    /\ sv_xin = NoForcing
    /\ sv_jumps = NoJumps

\* JaxSolver(max_steps=..., throw_exception=...), a frozen dataclass
SvInit ==
    /\ sv_batch \in BatchSizes
    /\ sv_pp \in PostProcessings
    /\ sv_ds \in Layouts(sv_batch)
    /\ sv_ppcall = NoPpCall
    /\ sv_out = <<>>
    /\ sv_throw \in BOOLEAN
    /\ sv_max_steps \in 1..MaxSteps
    /\ sv_pc = "idle"
    /\ sv_t = [b \in Batch |-> t_min]
    /\ sv_steps = [b \in Batch |-> 0]
    /\ sv_result = NoResult
    /\ sv_xin = NoForcing
    /\ sv_jumps = NoJumps

\* solve(parameters, y0, x_in): every element starts at t0 with no step taken
SolveStart ==
    /\ sv_pc # "integrating"
    /\ sv_pc' = "integrating"
    /\ sv_t' = [b \in Batch |-> t_min]
    /\ sv_steps' = [b \in Batch |-> 0]
    /\ sv_result' = NoResult
    /\ \E x_in \in Forcings :
        /\ sv_xin' = x_in
        /\ sv_jumps' = Jumps(x_in, x_in.ts, t_max)
    /\ sv_ppcall' = NoPpCall
    /\ sv_out' = <<>>
    /\ UNCHANGED <<sv_throw, sv_max_steps, sv_batch, sv_pp, sv_ds>>
    /\ SvFrame

\* one accepted step of element b: time advances, clipped to t1
StepAccept(b) ==
    /\ sv_pc = "integrating"
    /\ sv_t[b] < t_max
    /\ ~HitMaxSteps(sv_t[b], sv_steps[b], sv_max_steps)
    /\ \E dt \in 1..MaxStepLen :
        sv_t' = [sv_t EXCEPT ![b] = StepTo(sv_t[b], dt, sv_jumps)]
    /\ sv_steps' = [sv_steps EXCEPT ![b] = sv_steps[b] + 1]
    /\ UNCHANGED <<sv_throw, sv_max_steps, sv_pc, sv_result, sv_xin, sv_jumps,
                   sv_batch, sv_pp, sv_ds, sv_ppcall, sv_out>>
    /\ SvFrame

\* one step of element b the step size controller rejects: it counts, time
\* stays
StepReject(b) ==
    /\ sv_pc = "integrating"
    /\ sv_t[b] < t_max
    /\ ~HitMaxSteps(sv_t[b], sv_steps[b], sv_max_steps)
    /\ sv_steps' = [sv_steps EXCEPT ![b] = sv_steps[b] + 1]
    /\ UNCHANGED <<sv_throw, sv_max_steps, sv_pc, sv_t, sv_result, sv_xin, sv_jumps,
                   sv_batch, sv_pp, sv_ds, sv_ppcall, sv_out>>
    /\ SvFrame

\* every element has reached t1 or the ceiling: with throw the solve raises
\* if an element hit the ceiling, otherwise it returns sol.ys of every element
SolveEnd ==
    /\ sv_pc = "integrating"
    /\ \A b \in Batch :
        sv_t[b] = t_max \/ HitMaxSteps(sv_t[b], sv_steps[b], sv_max_steps)
    /\ IF sv_throw /\ \E b \in Batch : HitMaxSteps(sv_t[b], sv_steps[b], sv_max_steps)
       THEN /\ sv_pc' = "raised"
            /\ sv_result' = NoResult
            /\ sv_ppcall' = NoPpCall
            /\ sv_out' = <<>>
       ELSE LET p == preprocess_parameters(sv_pp)
                x == x_in_flat(sv_xin)
                eval == [b \in Batch |->
                            odesolve_splitargs(Y_0 \o p.ode_args \o p.pp_args \o x,
                                               OdeStates, Len(p.ode_args), Len(p.pp_args),
                                               Len(x), sv_pp, sv_t[b])]
            IN  /\ sv_pc' = "returned"
                /\ sv_result' = [b \in Batch |-> SolYs(sv_t[b])]
                /\ sv_ppcall' = [b \in Batch |-> eval[b].call]
                /\ sv_out' = ReshapeAll(Vmap([b \in Batch |-> eval[b].ret]), sv_ds, sv_batch)
    /\ UNCHANGED <<sv_throw, sv_max_steps, sv_t, sv_steps, sv_xin, sv_jumps,
                   sv_batch, sv_pp, sv_ds>>
    /\ SvFrame

SvNext ==
    \/ SolveStart
    \/ \E b \in Batch : StepAccept(b) \/ StepReject(b)
    \/ SolveEnd

(***************************************************************************)
(* Claims on the solver                                                    *)
(***************************************************************************)

\* element b ended its integration short of t1, at the step ceiling
Diverged(b) == HitMaxSteps(sv_t[b], sv_steps[b], sv_max_steps)

\* C4 as stated: with throw_exception set a solve with a diverged element
\* raises and returns nothing; with it cleared the solve returns, and a
\* diverged element holds +inf for every state at every saved time at and
\* after the time it failed at, and finite values at the saved times before.
C4_InfAtAndAfterFailure ==
    sv_pc \in {"returned", "raised"} =>
        /\ (sv_throw /\ \E b \in Batch : Diverged(b))
                => (sv_pc = "raised" /\ sv_result = NoResult)
        /\ ~sv_throw => sv_pc = "returned"
        /\ sv_pc = "returned" =>
            \A b \in Batch : \A v \in DOMAIN OdeStates : \A n \in DOMAIN SaveTs :
                Diverged(b) =>
                    sv_result[b][v][n] = IF SaveTs[n] >= sv_t[b] THEN "inf" ELSE "finite"

\* C4 amended: as stated, but the values are +inf at the saved times after
\* the time the integration had reached, and finite at the saved times up to
\* and including it.
C4_InfAfterFailure ==
    sv_pc \in {"returned", "raised"} =>
        /\ (sv_throw /\ \E b \in Batch : Diverged(b))
                => (sv_pc = "raised" /\ sv_result = NoResult)
        /\ ~sv_throw => sv_pc = "returned"
        /\ sv_pc = "returned" =>
            \A b \in Batch : \A v \in DOMAIN OdeStates : \A n \in DOMAIN SaveTs :
                Diverged(b) =>
                    sv_result[b][v][n] = IF SaveTs[n] > sv_t[b] THEN "inf" ELSE "finite"

\* the values a returned solve holds
ResultValues ==
    UNION { Range(sv_result[b][v]) : b \in Batch, v \in DOMAIN OdeStates }

\* C13: no batch element takes more than max_steps steps; a solve that has
\* ended has ended in exactly one of three ways: complete, with a finite value
\* at every saved time (every element reached t1); raised (throw_exception
\* set and an element diverged); or returned with infinities
\* (throw_exception cleared and an element diverged); and every solve that
\* has started ends.
C13_SolveTerminates ==
    /\ [](\A b \in Batch : sv_steps[b] <= sv_max_steps)
    /\ [](sv_pc = "returned" =>
            /\ \A b \in Batch : Len(sv_result[b]) = Len(OdeStates)
            /\ ResultValues = {"finite"} <=> \A b \in Batch : sv_t[b] = t_max
            /\ "inf" \in ResultValues <=> (~sv_throw /\ \E b \in Batch : Diverged(b)))
    /\ [](sv_pc = "raised" =>
            (sv_result = NoResult /\ sv_throw /\ \E b \in Batch : Diverged(b)))
    /\ (sv_pc = "integrating" ~> sv_pc \in {"returned", "raised"})

\* a solve raised: one element used all its steps and reached t1 with the
\* last of them, the other used all its steps without reaching it
C13_Witness ==
    /\ sv_pc = "raised"
    /\ \E b \in Batch : sv_steps[b] = sv_max_steps /\ sv_t[b] = t_max
    /\ \E b \in Batch : sv_steps[b] = sv_max_steps /\ sv_t[b] < t_max

\* the forcing breakpoints within the solved time range
BreakpointsWithin == {bp \in Range(sv_xin.ts) : t_min <= bp /\ bp <= t_max}

\* the forcing breakpoints before the last saved time
BreakpointsBeforeLast == {bp \in Range(sv_xin.ts) : bp < t_max}

\* C15 as stated: with forcing, the times the step size controller is forced
\* to step at are exactly the forcing breakpoints within [t_min, t_max]; no
\* breakpoint outside that range is passed.
C15_JumpsWithinRange ==
    (sv_pc # "idle" /\ sv_xin.present) =>
        (sv_jumps.present /\ Range(sv_jumps.ts) = BreakpointsWithin)

\* C15 amended: with forcing, the times passed to the step size controller
\* are exactly the forcing breakpoints strictly before the last saved time
\* t_max, those before t_min included and one on t_max excluded; without
\* forcing none is passed; and no accepted step crosses a passed time.
C15_JumpsBeforeLast ==
    /\ [](sv_pc # "idle" =>
            IF sv_xin.present
            THEN sv_jumps.present /\ Range(sv_jumps.ts) = BreakpointsBeforeLast
            ELSE sv_jumps = NoJumps)
    /\ [][\A b \in Batch : \A j \in Range(sv_jumps.ts) :
            (sv_pc = "integrating" /\ sv_t[b] < j) => sv_t'[b] <= j]_vars

\* a solve with a breakpoint before t_min and two between the saved times
\* returned; an element reached t_max stopping at each of the two
C15_Witness ==
    /\ sv_pc = "returned"
    /\ sv_xin.present
    /\ \E bp \in Range(sv_jumps.ts) : bp < t_min
    /\ \E b \in Batch : sv_t[b] = t_max /\ sv_steps[b] = 3

\* the names of the variables post_processing returned for element b
ReturnedByPostProcessing(b) ==
    LET call == sv_ppcall[b]
    IN DictKeys(post_processing(sv_pp, call.res_dict, call.x, call.interp, call.ppargs))

\* C16: the mapping a solve returns holds every ODE state named in y0 with
\* its trajectory and every variable the post-processing function returned;
\* the post-processing function was called with the raw trajectories of the
\* states, the time grid, the forcing interpolant (None without forcing) and
\* exactly the post-processing arguments.
C16_ResultHoldsStatesAndDerived ==
    sv_pc = "returned" =>
        /\ \A n \in DOMAIN OdeStates :
            /\ DictHas(sv_out, OdeStates[n])
            /\ DictGet(sv_out, OdeStates[n]).flat = Flat([b \in Batch |-> sv_result[b][n]])
        /\ \A b \in Batch :
            /\ ReturnedByPostProcessing(b) \subseteq DictKeys(sv_out)
            /\ sv_ppcall[b].res_dict = Zip(OdeStates, sv_result[b])
            /\ sv_ppcall[b].x = SaveTs
            /\ sv_ppcall[b].interp = IF sv_xin.present THEN "LinearInterpolation" ELSE "None"
            /\ sv_ppcall[b].ppargs = preprocess_parameters(sv_pp).pp_args

C4_Witness ==
    /\ sv_pc = "returned"
    /\ ~sv_throw
    /\ \E b \in Batch : sv_t[b] = t_max
    /\ \E b \in Batch : \E n \in DOMAIN SaveTs :
        /\ Diverged(b)
        /\ sv_t[b] = SaveTs[n]
        /\ sv_t[b] > t_min
        /\ sv_result[b][1][n] = "finite"
        /\ sv_result[b][1][n + 1] = "inf"

(***************************************************************************)
(* Seed pool.  A seed is identified with its position in the stream of     *)
(* integers the generator self.RNG produces: the k-th integer drawn from   *)
(* the generator is the seed k.                                            *)
(***************************************************************************)
MaxCores == 4
MaxDraws == 12
NWorkers == 2

Workers == 1..NWorkers

\* create_random_integers(n): the next n integers of the generator's stream.
create_random_integers(rng, n) == [i \in 1..n |-> rng + i]

\* self._seed_buffer_size
seed_buffer_size(ncores) == ncores * 2

\* a test that waits until fewer seeds than cores are left
NeedsRefillBelow(n_seeds_left, ncores) == n_seeds_left < ncores

\* the test of refill_consumed_seeds
NeedsRefill(n_seeds_left, ncores) == n_seeds_left = ncores

\* a pop that reads the first seed and leaves it in the list
PopRestKeep(pool) == pool

\* list.pop(0): what is left of the list
PopRest(pool) == Tail(pool)

\* the seed pool touches nothing of the other subsystems
SeedFrame == UNCHANGED <<flVars, obVars, dpVars, svVars, raVars, saVars>>

SeedIdle ==
    /\ sd_ncores = 0
    /\ sd_pool = <<>>
    /\ sd_rng = 0
    /\ sd_pc = [w \in Workers |-> "off"]
    /\ sd_left = [w \in Workers |-> 0]
    /\ sd_drawn = <<>>

\* SimulationBase.__init__: the buffer is filled with 2 * n_cores seeds.
SeedInit ==
    /\ sd_ncores \in 1..MaxCores
    /\ sd_pool = create_random_integers(0, seed_buffer_size(sd_ncores))
    /\ sd_rng = seed_buffer_size(sd_ncores)
    /\ sd_pc = [w \in Workers |-> "idle"]
    /\ sd_left = [w \in Workers |-> 0]
    /\ sd_drawn = <<>>

\* draw_seed enters refill_consumed_seeds: n_seeds_left = len(self._random_integers)
SeedCheck(w) ==
    /\ sd_pc[w] = "idle"
    /\ Len(sd_drawn) + Cardinality({v \in Workers : sd_pc[v] \in {"refill", "pop"}}) < MaxDraws
    /\ sd_left' = [sd_left EXCEPT ![w] = Len(sd_pool)]
    /\ sd_pc' = [sd_pc EXCEPT ![w] =
                    IF NeedsRefill(Len(sd_pool), sd_ncores) THEN "refill" ELSE "pop"]
    /\ UNCHANGED <<sd_ncores, sd_pool, sd_rng, sd_drawn>>
    /\ SeedFrame

\* the body of the if: new seeds are created and appended
SeedRefill(w) ==
    /\ sd_pc[w] = "refill"
    /\ LET n_new_seeds == seed_buffer_size(sd_ncores) - sd_left[w]
       IN  /\ sd_pool' = sd_pool \o create_random_integers(sd_rng, n_new_seeds)
           /\ sd_rng' = sd_rng + n_new_seeds
    /\ sd_pc' = [sd_pc EXCEPT ![w] = "pop"]
    /\ UNCHANGED <<sd_ncores, sd_left, sd_drawn>>
    /\ SeedFrame

\* seed = self._random_integers.pop(0); an empty list raises IndexError
SeedPop(w) ==
    /\ sd_pc[w] = "pop"
    /\ IF sd_pool = <<>>
       THEN /\ sd_pc' = [sd_pc EXCEPT ![w] = "IndexError"]
            /\ UNCHANGED <<sd_pool, sd_drawn>>
       ELSE /\ sd_drawn' = Append(sd_drawn, Head(sd_pool))
            /\ sd_pool' = PopRest(sd_pool)
            /\ sd_pc' = [sd_pc EXCEPT ![w] = "idle"]
    /\ UNCHANGED <<sd_ncores, sd_rng, sd_left>>
    /\ SeedFrame

\* C6: over any run of draw_seed calls and refills, no seed is returned by two
\* draw_seed calls, and a returned seed is no longer in the pool.
C6_EachSeedPoppedOnce ==
    /\ \A i, j \in DOMAIN sd_drawn : i # j => sd_drawn[i] # sd_drawn[j]
    /\ \A i \in DOMAIN sd_drawn : sd_drawn[i] \notin Range(sd_pool)

\* seeds were drawn before and after a refill, and a refilled seed was returned
C6_Witness ==
    /\ Len(sd_drawn) >= 3
    /\ \E i \in DOMAIN sd_drawn : sd_drawn[i] > seed_buffer_size(sd_ncores)

\* C7: with the check and the pop of several workers interleaved, the outcome is
\* that of a sequential order of the calls: the seeds returned are pairwise
\* distinct and no worker reaches its pop with the pool empty.
C7_InterleavingIsSequential ==
    /\ \A i, j \in DOMAIN sd_drawn : i < j => sd_drawn[i] # sd_drawn[j]
    /\ \A w \in Workers : sd_pc[w] = "pop" => sd_pool # <<>>
    /\ \A w \in Workers : sd_pc[w] # "IndexError"

SeedNext == \E w \in Workers : SeedCheck(w) \/ SeedRefill(w) \/ SeedPop(w)

\* a single caller, one draw_seed after the other: the first of the workers
Caller == CHOOSE w \in Workers : \A v \in Workers : w <= v

SeedNextOfOne == SeedCheck(Caller) \/ SeedRefill(Caller) \/ SeedPop(Caller)

\* C25: with a single caller of draw_seed and n_cores of one or more, the pool
\* is not empty when the pop is executed; the refill happens exactly when as
\* many seeds as cores are left and adds the buffer size less the seeds left;
\* after every draw the pool holds between n_cores and 2 * n_cores - 1 seeds.
C25_PoolNeverEmpty ==
    /\ [](sd_pc[Caller] = "pop" => Len(sd_pool) >= 1)
    /\ [](sd_pc[Caller] # "IndexError")
    /\ []((sd_pc[Caller] = "idle" /\ sd_drawn # <<>>) =>
            (sd_ncores <= Len(sd_pool) /\ Len(sd_pool) <= 2 * sd_ncores - 1))
    /\ [][SeedCheck(Caller) =>
            (sd_pc'[Caller] = "refill" <=> Len(sd_pool) = sd_ncores)]_vars
    /\ [][SeedRefill(Caller) =>
            /\ Len(sd_pool) = sd_ncores
            /\ Len(sd_pool') - Len(sd_pool) = seed_buffer_size(sd_ncores) - Len(sd_pool)]_vars

\* the single caller has drawn through a refill: a refilled seed was returned
C25_Witness ==
    /\ sd_pc[Caller] = "idle"
    /\ sd_ncores >= 2
    /\ Len(sd_drawn) > seed_buffer_size(sd_ncores)
    /\ Len(sd_pool) = 2 * sd_ncores - 1

\* post_processing was called for element b with the trajectories of b
PostProcessed(b) ==
    /\ sv_ppcall[b].x = SaveTs
    /\ DictKeys(sv_ppcall[b].res_dict) = Range(OdeStates)
    /\ \A v \in DOMAIN OdeStates :
            DictGet(sv_ppcall[b].res_dict, OdeStates[v]) = sv_result[b][v]

ResultArrays ==
    { Array(<<2>>, <<5, 6>>),
      Array(<<2, 2>>, <<1, 2, 3, 4>>),
      Array(<<2, 3>>, <<1, 2, 3, 4, 5, 6>>),
      Array(<<3, 2>>, <<1, 2, 3, 4, 5, 6>>),
      Array(<<1, 3>>, <<7, 8, 9>>),
      Array(<<2, 2, 2>>, <<1, 2, 3, 4, 5, 6, 7, 8>>) }

\* config.simulation.data_variables
ResultNames == { <<"cext">>, <<"cext", "cint">>, <<"cext", "cint", "ctot">> }

\* self.coordinates
ResultCoordinates ==
    { <<>>,
      <<Coord("time", <<0, 1>>)>>,
      <<Coord("time", <<0, 1, 2>>)>>,
      <<Coord("id", <<0, 1>>), Coord("time", <<0, 1>>)>> }

\* an array left as it is
Untransposed(Y, axes) == Y

\* Y.transpose(axes): axis i of the result is axis axes[i] of Y
Transpose(Y, axes) ==
    LET shape == [i \in DOMAIN axes |-> Y.shape[axes[i] + 1]]
        source(idx) == [j \in DOMAIN Y.shape |->
                            idx[CHOOSE i \in DOMAIN axes : axes[i] + 1 = j]]
    IN  Array(shape,
              [p \in 1..Len(Y.flat) |->
                  Y.flat[FlatIndex(source(MultiIndex(p - 1, shape)), Y.shape) + 1]])

\* iterating an array: its rows along the first axis
Rows(Y) ==
    LET size == Product(Tail(Y.shape))
    IN  [i \in 1..Head(Y.shape) |->
            Array(Tail(Y.shape), SubSeq(Y.flat, (i - 1) * size + 1, i * size))]

\* the names xarray gives dimensions that have none
DefaultDims == <<"dim_0", "dim_1", "dim_2">>

\* xr.DataArray(y, coords=coordinates, name=y_name): without coordinates the
\* dimensions get default names; with them there is one coordinate per axis,
\* as long as the axis, or the constructor raises ValueError
DataArray(y, coordinates, y_name) ==
    IF coordinates = <<>>
    THEN [status |-> "ok", da |-> DataVar(y_name, SubSeq(DefaultDims, 1, Len(y.shape)), y.flat)]
    ELSE IF /\ Len(coordinates) = Len(y.shape)
            /\ \A n \in DOMAIN coordinates : Len(coordinates[n].v) = y.shape[n]
    THEN [status |-> "ok",
          da |-> DataVar(y_name, [n \in DOMAIN coordinates |-> coordinates[n].k], y.flat)]
    ELSE [status |-> "ValueError", da |-> DataVar(y_name, <<>>, <<>>)]

\* create_dataset_from_numpy(Y, Y_names, coordinates)
create_dataset_from_numpy(Y, Y_names, coordinates) ==
    LET n_vars == Y.shape[Len(Y.shape)]
        n_dims == Len(Y.shape)
        raised(error) == [status |-> error, dataset |-> NotADataset]
    IN  IF n_vars # Len(Y_names) THEN raised("AssertionError")
        ELSE LET Y_transposed ==
                    Transpose(Y, <<n_dims - 1>> \o [i \in 1..(n_dims - 1) |-> i - 1])
                 data_arrays ==
                    [n \in DOMAIN Zip(Rows(Y_transposed), Y_names) |->
                        DataArray(Rows(Y_transposed)[n], coordinates, Y_names[n])]
             IN  IF \E n \in DOMAIN data_arrays : data_arrays[n].status # "ok"
                 THEN raised("ValueError")
                 ELSE [status |-> "ok",
                       dataset |-> [isds |-> TRUE, coords |-> coordinates,
                                    vars |-> [n \in DOMAIN data_arrays |-> data_arrays[n].da]]]

NoDataset == [status |-> "none", dataset |-> NotADataset]

RaFrame == UNCHANGED <<flVars, obVars, dpVars, svVars, seedVars, saVars>>

RaIdle ==
    /\ ra_Y = Array(<<>>, <<>>)
    /\ ra_names = <<>>
    /\ ra_coords = <<>>
    /\ ra_out = NoDataset

\* the arguments of a call
RaInit ==
    /\ ra_Y \in ResultArrays
    /\ ra_names \in ResultNames
    /\ ra_coords \in ResultCoordinates
    /\ ra_out = NoDataset

\* the call
CreateDatasetFromNumpy ==
    /\ ra_out' = create_dataset_from_numpy(ra_Y, ra_names, ra_coords)
    /\ UNCHANGED <<ra_Y, ra_names, ra_coords>>
    /\ RaFrame

RaNext == CreateDatasetFromNumpy

(***************************************************************************)
(* Claims on the result assembler                                          *)
(***************************************************************************)

\* the elements of Y at index i, from 0, of its trailing axis, the other
\* axes in order
TrailingSlice(Y, i) ==
    LET n_vars == Y.shape[Len(Y.shape)]
    IN  [p \in 1..(Len(Y.flat) \div n_vars) |-> Y.flat[(p - 1) * n_vars + i + 1]]

\* the axes of Y before the trailing one are those of the coordinates
CoordinatesFit(Y, coordinates) ==
    \/ coordinates = <<>>
    \/ /\ Len(coordinates) = Len(Y.shape) - 1
       /\ \A n \in DOMAIN coordinates : Len(coordinates[n].v) = Y.shape[n]

\* a dataset returned holds, as i-th variable, the slice i of the trailing
\* axis under the i-th name and the coordinates; with other counts of names
\* than the trailing axis is long the call raised the assertion's error and
\* gave no dataset
AssembledByNames ==
    LET n_vars == ra_Y.shape[Len(ra_Y.shape)]
    IN  /\ ra_out.status = "ok" =>
            /\ Len(ra_out.dataset.vars) = Len(ra_names)
            /\ ra_out.dataset.coords = ra_coords
            /\ \A i \in DOMAIN ra_names :
                /\ ra_out.dataset.vars[i].k = ra_names[i]
                /\ ra_out.dataset.vars[i].v = TrailingSlice(ra_Y, i - 1)
                /\ ra_coords # <<>> =>
                        ra_out.dataset.vars[i].dims = [n \in DOMAIN ra_coords |-> ra_coords[n].k]
        /\ n_vars # Len(ra_names) =>
                (ra_out.status = "AssertionError" /\ ra_out.dataset = NotADataset)

\* C19 as stated: create_dataset_from_numpy succeeds exactly when the number
\* of names equals the length of the trailing axis, the i-th variable then
\* being the slice i of the trailing axis under the i-th name and the given
\* coordinates; with other counts it fails with the shape-mismatch error and
\* returns no dataset.
C19_SucceedsExactlyOnEqualCounts ==
    ra_out.status # "none" =>
        /\ ra_out.status = "ok" <=> ra_Y.shape[Len(ra_Y.shape)] = Len(ra_names)
        /\ AssembledByNames

\* C19 amended: as stated, but the call succeeds exactly when the counts are
\* equal and the axes of the array before the trailing one are those of the
\* given coordinates, one coordinate per axis and as long as the axis (or
\* there are no coordinates at all); with equal counts and coordinates that
\* do not fit it fails with a ValueError and returns no dataset.
C19_SucceedsOnEqualCountsIfCoordinatesFit ==
    ra_out.status # "none" =>
        /\ ra_out.status = "ok" <=>
                /\ ra_Y.shape[Len(ra_Y.shape)] = Len(ra_names)
                /\ CoordinatesFit(ra_Y, ra_coords)
        /\ AssembledByNames
        /\ (ra_Y.shape[Len(ra_Y.shape)] = Len(ra_names) /\ ~CoordinatesFit(ra_Y, ra_coords))
                => (ra_out.status = "ValueError" /\ ra_out.dataset = NotADataset)

\* an array of two leading axes and two variables became a dataset of two
\* variables over the two coordinates
C19_Witness ==
    /\ ra_out.status = "ok"
    /\ Len(ra_Y.shape) = 3
    /\ Len(ra_coords) = 2
    /\ Len(ra_out.dataset.vars) = 2
    /\ ra_out.dataset.vars[2].v = <<2, 4, 6, 8>>

(***************************************************************************)
(* The arguments of the vectorized map: solve gives jax.vmap one in_axes   *)
(* entry per expected argument and calls the mapped function with the      *)
(* arguments of the four groups one after the other; odesolve_splitargs    *)
(* takes them apart again.                                                 *)
(***************************************************************************)
MaxArgs == 2

\* the keys of a y0 of so many states
Keys(count) == [n \in 1..count |-> n]

\* [0 for _ in range(count)]: nothing for a count below one
Zeros(count) == [n \in 1..count |-> 0]

\* the in_axes solve builds
InAxes(n_ode_states, ode_args, pp_args, x_in) ==
    Zeros(n_ode_states) \o Zeros(Len(ode_args)) \o Zeros(Len(pp_args)) \o Zeros(Len(x_in))

\* a map that takes in_axes shorter than the arguments
InAxesPrefix(in_axes, args) == Len(in_axes) <= Len(args)

\* jax.vmap takes a tuple of in_axes that has one entry per positional
\* argument, and raises ValueError for any other
InAxesFit(in_axes, args) == Len(in_axes) = Len(args)

NoSplit == [y0 |-> <<>>, odeargs |-> <<>>, ppargs |-> <<>>, x_in |-> <<>>]

NoVmapCall == [status |-> "none", in_axes |-> <<>>, args |-> <<>>,
               n_odestates |-> 0, split |-> NoSplit]

SaFrame == UNCHANGED <<flVars, obVars, dpVars, svVars, seedVars, raVars>>

SaIdle ==
    /\ sa_n_ode_states = 0
    /\ sa_y0 = <<>>
    /\ sa_n_odeargs = 0
    /\ sa_n_ppargs = 0
    /\ sa_n_xin = 0
    /\ sa_call = NoVmapCall

\* a solver of some state count, and parameters, y0 and x_in of some sizes
SaInit ==
    /\ sa_n_ode_states \in -1..MaxArgs
    /\ sa_y0 \in {Keys(count) : count \in 0..MaxArgs}
    /\ sa_n_odeargs \in 0..MaxArgs
    /\ sa_n_ppargs \in 0..MaxArgs
    /\ sa_n_xin \in 0..MaxArgs
    /\ sa_call = NoVmapCall

\* solve up to the call of loop_eval, and odesolve_splitargs on the arguments
\* of one batch element
SolveArgs ==
    /\ sa_call.status = "none"
    /\ LET ode_args == Args("ode", sa_n_odeargs)
           pp_args == Args("pp", sa_n_ppargs)
           x_in == Args("x_in", sa_n_xin)
           in_axes == InAxes(sa_n_ode_states, ode_args, pp_args, x_in)
           args == preprocess_y_0(sa_y0) \o ode_args \o pp_args \o x_in
       IN  IF InAxesFit(in_axes, args)
           THEN sa_call' = [status |-> "ok", in_axes |-> in_axes, args |-> args,
                            n_odestates |-> Len(sa_y0),
                            split |-> SplitArgs(args, Len(sa_y0), Len(ode_args),
                                                Len(pp_args), Len(x_in))]
           ELSE sa_call' = [NoVmapCall EXCEPT !.status = "ValueError",
                                              !.in_axes = in_axes, !.args = args]
    /\ UNCHANGED <<sa_n_ode_states, sa_y0, sa_n_odeargs, sa_n_ppargs, sa_n_xin>>
    /\ SaFrame

SaNext == SolveArgs

\* C24: whatever the numbers of states, model arguments, post-processing
\* arguments and forcing entries, the four slices odesolve_splitargs takes are
\* the four groups solve passed, in the order y0, model arguments,
\* post-processing arguments, forcing: one after the other they are the whole
\* tuple, and no argument is in two of them.
C24_SplitIsThePartitionOfSolve ==
    sa_call.status = "ok" =>
        LET split == sa_call.split
        IN  /\ split.y0 = preprocess_y_0(sa_y0)
            /\ split.odeargs = Args("ode", sa_n_odeargs)
            /\ split.ppargs = Args("pp", sa_n_ppargs)
            /\ split.x_in = Args("x_in", sa_n_xin)
            /\ split.y0 \o split.odeargs \o split.ppargs \o split.x_in = sa_call.args
            /\ Len(split.y0) + Len(split.odeargs) + Len(split.ppargs) + Len(split.x_in)
                    = Cardinality(Range(sa_call.args))

\* a split of arguments of all four groups, two of each
C24_Witness ==
    /\ sa_call.status = "ok"
    /\ Len(sa_call.split.y0) = 2
    /\ Len(sa_call.split.odeargs) = 2
    /\ Len(sa_call.split.ppargs) = 2
    /\ Len(sa_call.split.x_in) = 2

StatesMapped == IF sa_n_ode_states < 0 THEN 0 ELSE sa_n_ode_states

FlNext == FlFlatten \/ FlReverse

InitFlatten == FlInit /\ SeedIdle /\ DpIdle /\ ObIdle /\ SvIdle /\ RaIdle /\ SaIdle

SpecFlatten == InitFlatten /\ [][FlNext]_vars

InitSeedConc == SeedInit /\ FlIdle /\ DpIdle /\ ObIdle /\ SvIdle /\ RaIdle /\ SaIdle

InitDispatch == DpInit /\ ObReady /\ FlIdle /\ SeedIdle /\ SvIdle /\ RaIdle /\ SaIdle

SpecDispatch == InitDispatch /\ [][DpNext]_vars

\* a simulation whose state count is configured
InitObservations ==
    /\ ObInit /\ DpInit /\ dp_n_ode_states = 2
    /\ FlIdle /\ SeedIdle /\ SvIdle /\ RaIdle /\ SaIdle

SpecObservations == InitObservations /\ [][ObNext]_vars

InitSolve == SvInit /\ FlIdle /\ ObIdle /\ DpIdle /\ SeedIdle /\ RaIdle /\ SaIdle

SpecSolve == InitSolve /\ [][SvNext]_vars

\* the integration loop keeps stepping while a step is due, and solve returns
\* or raises once no step is due
SvFairness ==
    /\ WF_vars(\E b \in Batch : StepAccept(b) \/ StepReject(b))
    /\ WF_vars(SolveEnd)

SpecSolveFair == InitSolve /\ [][SvNext]_vars /\ SvFairness

SpecSeedConc == InitSeedConc /\ [][SeedNext]_vars

SpecSeedOfOne == InitSeedConc /\ [][SeedNextOfOne]_vars

InitAssemble == RaInit /\ FlIdle /\ ObIdle /\ DpIdle /\ SvIdle /\ SeedIdle /\ SaIdle

SpecAssemble == InitAssemble /\ [][RaNext]_vars

InitArgs == SaInit /\ FlIdle /\ ObIdle /\ DpIdle /\ SvIdle /\ SeedIdle /\ RaIdle

SpecArgs == InitArgs /\ [][SaNext]_vars

====
